---- MODULE Spec2Model ----
(***************************************************************************)
(* A model of the vpbank-ml-api fraud scoring service:                     *)
(*   src/src/utils/featureMapper.js          (FeatureMapper)               *)
(*   src/src/services/fraudDetectionService.js (FraudDetectionService)     *)
(*                                                                         *)
(* JavaScript values are tagged records.  Numbers are fixed-point: Num(n)  *)
(* stands for the double n / Fix, so 0.85 is Num(85) and 1500.50 is        *)
(* Num(150050).  Products and quotients are truncated to that grid.        *)
(***************************************************************************)
EXTENDS Integers, Sequences, FiniteSets, TLC

\* The fixed-point denominator of every modelled number (a modelling unit,
\* not a bound: hundredths).
Fix == 10 * 10

(***************************************************************************)
(* JavaScript values                                                       *)
(***************************************************************************)
Num(n)  == [k |-> "num", n |-> n, s |-> ""]
Str(s)  == [k |-> "str", n |-> 0, s |-> s]
Bool(b) == [k |-> "bool", n |-> IF b THEN 1 ELSE 0, s |-> ""]
Undef   == [k |-> "undef", n |-> 0, s |-> ""]
Null    == [k |-> "null", n |-> 0, s |-> ""]
NaN     == [k |-> "nan", n |-> 0, s |-> ""]

\* typeof v === 'number' (NaN is a number)
IsNumber(v) == v.k \in {"num", "nan"}

\* ToBoolean: undefined, null, NaN, 0, "" and false are falsy
Truthy(v) ==
  CASE v.k = "num"  -> v.n # 0
    [] v.k = "bool" -> v.n = 1
    [] v.k = "str"  -> v.s # ""
    [] OTHER        -> FALSE

\* a || b
JsOr(a, b) == IF Truthy(a) THEN a ELSE b

\* ToNumber: undefined -> NaN, null -> 0, booleans -> 0/1, "" -> 0, and the
\* non-numeric strings of this model -> NaN
ToNumber(v) ==
  CASE v.k = "num"  -> v
    [] v.k = "bool" -> Num(v.n * Fix)
    [] v.k = "null" -> Num(0)
    [] v.k = "str"  -> IF v.s = "" THEN Num(0) ELSE NaN
    [] OTHER        -> NaN

AbsInt(n) == IF n < 0 THEN 0 - n ELSE n

\* a * b, a / b, a - b, Math.abs, Math.min, Math.max on doubles; NaN propagates.
\* (Division by zero does not occur in the modelled code: every divisor is
\* guarded by the code before use; it is mapped to NaN here.)
JsMul(a, b) ==
  LET x == ToNumber(a) y == ToNumber(b) IN
  IF x.k = "nan" \/ y.k = "nan" THEN NaN ELSE Num((x.n * y.n) \div Fix)

JsDiv(a, b) ==
  LET x == ToNumber(a) y == ToNumber(b) IN
  IF x.k = "nan" \/ y.k = "nan" \/ y.n = 0 THEN NaN ELSE Num((x.n * Fix) \div y.n)

JsSub(a, b) ==
  LET x == ToNumber(a) y == ToNumber(b) IN
  IF x.k = "nan" \/ y.k = "nan" THEN NaN ELSE Num(x.n - y.n)

JsAbs(a) ==
  LET x == ToNumber(a) IN IF x.k = "nan" THEN NaN ELSE Num(AbsInt(x.n))

JsMin(a, b) ==
  LET x == ToNumber(a) y == ToNumber(b) IN
  IF x.k = "nan" \/ y.k = "nan" THEN NaN ELSE IF x.n <= y.n THEN x ELSE y

JsMax(a, b) ==
  LET x == ToNumber(a) y == ToNumber(b) IN
  IF x.k = "nan" \/ y.k = "nan" THEN NaN ELSE IF x.n >= y.n THEN x ELSE y

\* a > b, a >= b, a <= b: false as soon as one side is NaN
JsGt(a, b) ==
  LET x == ToNumber(a) y == ToNumber(b) IN
  x.k = "num" /\ y.k = "num" /\ x.n > y.n

JsGe(a, b) ==
  LET x == ToNumber(a) y == ToNumber(b) IN
  x.k = "num" /\ y.k = "num" /\ x.n >= y.n

JsLe(a, b) ==
  LET x == ToNumber(a) y == ToNumber(b) IN
  x.k = "num" /\ y.k = "num" /\ x.n <= y.n

\* Math.log10 on the fixed-point grid: the integer part of the logarithm
\* (floor(log10(x))) for x >= 1, -1 for 0 < x < 1, NaN otherwise.
RECURSIVE Digits(_)
Digits(n) == IF n < 10 THEN 0 ELSE 1 + Digits(n \div 10)

JsLog10(a) ==
  LET x == ToNumber(a) IN
  IF x.k = "nan" \/ x.n <= 0 THEN NaN
  ELSE IF x.n < Fix THEN Num(0 - Fix)
  ELSE Num(Fix * Digits(x.n \div Fix))

\* obj[key] on a plain object: undefined when the key is not set
Get(obj, key) == IF key \in DOMAIN obj THEN obj[key] ELSE Undef

\* obj[key] = v
Put(obj, key, v) ==
  [x \in (DOMAIN obj) \cup {key} |-> IF x = key THEN v ELSE obj[x]]

\* A completed call: a returned value or a thrown error
Ok(v)    == [ok |-> TRUE, val |-> v, err |-> ""]
Throw(e) == [ok |-> FALSE, val |-> Undef, err |-> e]

(***************************************************************************)
(* FeatureMapper (src/src/utils/featureMapper.js)                          *)
(***************************************************************************)
ModelTypes == {"qr", "ibft", "topup"}

isNightTime(hour) ==
  IF JsGe(hour, Num(22 * Fix)) \/ JsLe(hour, Num(6 * Fix)) THEN Num(Fix) ELSE Num(0)

getTxnTypeIndex(txnType) ==
  LET typeMap == [QR |-> Num(2 * Fix), IBFT |-> Num(1 * Fix), TOPUP |-> Num(3 * Fix)] IN
  JsOr(IF txnType.k = "str" THEN Get(typeMap, txnType.s) ELSE Undef, Num(0))

\* rates[currency] || 1, as a fraction num/den of the static rate table
RateNum(currency) ==
  CASE currency = Str("USD") -> 1
    [] currency = Str("VND") -> 4
    [] currency = Str("JPY") -> 67
    [] currency = Str("EUR") -> 108
    [] currency = Str("GBP") -> 127
    [] OTHER                 -> 1

RateDen(currency) ==
  CASE currency = Str("USD") -> 1
    [] currency = Str("VND") -> 100000
    [] currency = Str("JPY") -> 10000
    [] currency = Str("EUR") -> 100
    [] currency = Str("GBP") -> 100
    [] OTHER                 -> 1

convertToUSD(amount, currency) ==
  LET x == ToNumber(amount) IN
  IF x.k = "nan" THEN NaN
  ELSE Num((x.n * RateNum(currency)) \div RateDen(currency))

isHighAmount(amount) ==
  IF JsGt(amount, Num(10000 * Fix)) THEN Num(Fix) ELSE Num(0)

calculateVelocity(txnCount1h) == JsOr(txnCount1h, Num(0))

calculateAmountRank(currentAmount, avgAmount24h) ==
  IF ~Truthy(avgAmount24h) \/ avgAmount24h = Num(0) THEN Num(Fix)
  ELSE JsMin(JsDiv(currentAmount, avgAmount24h), Num(10 * Fix))

calculateGeoSpeed(distance, timeDiff) ==
  IF ~Truthy(timeDiff) \/ JsLe(timeDiff, Num(0)) THEN Num(0)
  ELSE LET timeInMinutes == JsDiv(timeDiff, Num(60 * Fix)) IN
       JsDiv(distance, timeInMinutes)

calculateLatShift(lat, centerLat) == JsAbs(JsSub(lat, centerLat))

calculateLngShift(lng, centerLng) == JsAbs(JsSub(lng, centerLng))

\* The user agents of this model that match /bot|crawler|spider|automated|script/i
SuspiciousAgents == {"GoogleBot/2.1", "python-script"}

isSuspiciousUserAgent(userAgent) ==
  IF ~Truthy(userAgent) THEN Num(Fix)
  ELSE IF userAgent.k = "str" /\ userAgent.s \in SuspiciousAgents THEN Num(Fix)
  ELSE Num(0)

\* x ? 1 : 0
Flag(v) == IF Truthy(v) THEN Num(Fix) ELSE Num(0)

\* t === 'IBFT' ? 1 : 0
IsType(v, name) == IF v = Str(name) THEN Num(Fix) ELSE Num(0)

Sections == {"transaction", "temporal", "location", "aggregation", "behavioral"}

\* A raw event is a function from its present sections to objects (functions
\* from their present field names to values).
SectionAbsent(ev, s) == s \notin DOMAIN ev

\* The object literal of mapKafkaToModelFeatures (lines 22-91)
BaseFeatures(transaction, temporal, location, aggregation, behavioral) ==
  [ is_weekend |-> Flag(Get(temporal, "is_weekend")),
    is_night |-> isNightTime(Get(temporal, "hour")),
    txn_type_idx |-> getTxnTypeIndex(Get(transaction, "txn_type")),
    is_ibft |-> IsType(Get(transaction, "txn_type"), "IBFT"),
    is_topup |-> IsType(Get(transaction, "txn_type"), "TOPUP"),
    is_qr |-> IsType(Get(transaction, "txn_type"), "QR"),
    amount_usd |-> convertToUSD(Get(transaction, "amount_raw"), Get(transaction, "currency")),
    amount_log |-> Get(transaction, "amount_log"),
    is_high_amount |-> isHighAmount(Get(transaction, "amount_raw")),
    name_is_ascii |-> Flag(Get(behavioral, "name_is_ascii")),
    name_has_digit |-> Flag(Get(behavioral, "name_has_digit")),
    name_has_symbol |-> Flag(Get(behavioral, "name_has_symbol")),
    name_repeated_char |-> Flag(Get(behavioral, "name_repeated_char")),
    email_domain |-> JsOr(Get(behavioral, "email_domain"), Str("")),
    disposable_email_flag |-> Flag(Get(behavioral, "is_disposable_email")),
    billing_lat |-> Get(location, "billing_lat"),
    billing_long |-> Get(location, "billing_long"),
    is_new_device |-> Flag(Get(behavioral, "is_new_device")),
    geo_distance_from_last_txn |-> Get(location, "geo_distance_from_last_txn"),
    seconds_since_last_txn |-> Get(aggregation, "seconds_since_last_txn"),
    is_business_hours |-> Flag(Get(temporal, "is_business_hours")),
    sum_amount_1h |-> Get(aggregation, "user_amount_sum_1h"),
    avg_amount_1h |-> Get(aggregation, "user_amount_avg_1h"),
    txn_count_1h |-> Get(aggregation, "user_txn_count_1h"),
    sum_amount_24h |-> Get(aggregation, "user_amount_sum_24h"),
    avg_amount_24h |-> Get(aggregation, "user_amount_avg_24h"),
    txn_count_24h |-> Get(aggregation, "user_txn_count_24h"),
    velocity_1h |-> calculateVelocity(Get(aggregation, "user_txn_count_1h")),
    rank_amount_per_day |->
      calculateAmountRank(Get(transaction, "amount_raw"),
                          Get(aggregation, "user_amount_avg_24h")),
    geo_speed_km_per_min |->
      calculateGeoSpeed(Get(location, "geo_distance_from_last_txn"),
                        Get(aggregation, "seconds_since_last_txn")),
    same_device_txn_1h |-> Get(aggregation, "device_txn_count_1h"),
    lat_shift |-> calculateLatShift(Get(location, "billing_lat"), Num(3890)),
    lng_shift |-> calculateLngShift(Get(location, "billing_long"), Num(0 - 9120)),
    change_in_user_agent |-> Flag(Get(behavioral, "is_new_device")),
    suspicious_agent |->
      isSuspiciousUserAgent(JsOr(Get(behavioral, "user_agent"),
                                 Get(behavioral, "device_fingerprint"))) ]

\* The assignments after the literal (lines 93-118)
DefaultedFeatures(f0, aggregation, behavioral) ==
  LET agg(k) == JsOr(Get(aggregation, k), Num(0))
      own(k) == JsOr(Get(f0, k), Num(0))
      extra ==
        [ user_agent |-> JsOr(JsOr(Get(behavioral, "user_agent"),
                                   Get(behavioral, "device_fingerprint")), Str("")),
          device_fingerprint |-> JsOr(Get(behavioral, "device_fingerprint"), Str("")),
          email_domain |-> JsOr(JsOr(Get(behavioral, "email_domain"),
                                     Get(f0, "email_domain")), Str("")),
          user_txn_count_1h |-> own("user_txn_count_1h"),
          user_amount_sum_1h |-> own("user_amount_sum_1h"),
          user_amount_avg_1h |-> own("user_amount_avg_1h"),
          user_unique_merchants_1h |-> agg("user_unique_merchants_1h"),
          user_txn_count_24h |-> own("user_txn_count_24h"),
          user_amount_sum_24h |-> own("user_amount_sum_24h"),
          user_amount_avg_24h |-> own("user_amount_avg_24h"),
          user_unique_merchants_24h |-> agg("user_unique_merchants_24h"),
          user_unique_channels_24h |-> agg("user_unique_channels_24h"),
          merchant_txn_count_1h |-> agg("merchant_txn_count_1h"),
          merchant_amount_sum_1h |-> agg("merchant_amount_sum_1h"),
          merchant_unique_users_1h |-> agg("merchant_unique_users_1h"),
          device_txn_count_1h |-> agg("device_txn_count_1h"),
          ip_txn_count_1h |-> agg("ip_txn_count_1h"),
          seconds_since_last_txn |-> agg("seconds_since_last_txn"),
          is_velocity_anomaly |-> Flag(Get(aggregation, "is_velocity_anomaly")),
          is_amount_anomaly |-> Flag(Get(aggregation, "is_amount_anomaly")),
          is_new_merchant |-> Flag(Get(aggregation, "is_new_merchant")),
          is_new_location |-> Flag(Get(aggregation, "is_new_location")),
          is_rapid_fire |-> Flag(Get(aggregation, "is_rapid_fire")) ]
  IN [k \in (DOMAIN f0) \cup (DOMAIN extra) |->
        IF k \in DOMAIN extra THEN extra[k] ELSE f0[k]]

\* The derived features (lines 120-122)
DerivedFeatures(f1) ==
  LET f2 == Put(f1, "amount_x_velocity",
                JsMul(Get(f1, "amount_log"), Get(f1, "velocity_1h")))
  IN Put(f2, "geo_rank_ratio",
         JsDiv(Get(f2, "geo_distance_from_last_txn"),
               JsMax(Get(f2, "rank_amount_per_day"), Num(Fix))))

\* mapKafkaToModelFeatures: reading a field of an absent section throws
mapKafkaToModelFeatures(ev) ==
  IF \E s \in Sections : SectionAbsent(ev, s) THEN Throw("TypeError")
  ELSE Ok(DerivedFeatures(
            DefaultedFeatures(
              BaseFeatures(ev.transaction, ev.temporal, ev.location,
                           ev.aggregation, ev.behavioral),
              ev.aggregation, ev.behavioral)))


(***************************************************************************)
(* prepareONNXInput and validateFeatures                                   *)
(***************************************************************************)
QROrder ==
  << "is_weekend", "is_night", "txn_type_idx", "is_ibft", "is_topup", "is_qr",
     "amount_usd", "amount_log", "is_high_amount",
     "name_is_ascii", "name_has_digit", "name_has_symbol", "name_repeated_char",
     "disposable_email_flag", "billing_lat", "billing_long",
     "seconds_since_last_txn", "is_new_device", "geo_distance_from_last_txn",
     "suspicious_agent", "is_business_hours", "sum_amount_1h", "avg_amount_1h",
     "txn_count_1h", "sum_amount_24h", "avg_amount_24h", "txn_count_24h",
     "velocity_1h", "rank_amount_per_day", "change_in_user_agent",
     "lat_shift", "lng_shift", "geo_speed_km_per_min", "same_device_txn_1h" >>

IBFTOrder ==
  << "is_weekend", "is_night", "txn_type_idx", "is_ibft", "is_topup", "is_qr",
     "amount_usd", "amount_log", "is_high_amount",
     "name_is_ascii", "name_has_digit", "name_has_symbol", "name_repeated_char",
     "disposable_email_flag", "billing_lat", "billing_long", "seconds_since_last_txn",
     "is_new_device", "geo_distance_from_last_txn", "suspicious_agent", "is_business_hours",
     "sum_amount_1h", "avg_amount_1h", "txn_count_1h",
     "sum_amount_24h", "avg_amount_24h", "txn_count_24h" >>

TopupOrder ==
  << "is_weekend", "is_night", "txn_type_idx", "is_ibft", "is_topup", "is_qr",
     "amount_usd", "amount_log", "is_high_amount",
     "name_is_ascii", "name_has_digit", "name_has_symbol", "name_repeated_char",
     "disposable_email_flag", "billing_lat", "billing_long", "seconds_since_last_txn",
     "is_new_device", "geo_distance_from_last_txn", "suspicious_agent", "is_business_hours",
     "sum_amount_1h", "avg_amount_1h", "txn_count_1h",
     "sum_amount_24h", "avg_amount_24h", "txn_count_24h" >>

\* featureOrder.map(key => typeof value === 'number' ? value : 0)
CoerceFeature(features, key) ==
  LET value == Get(features, key) IN IF IsNumber(value) THEN value ELSE Num(0)

\* Variant of ExtractInOrder that reads each entry from the key one place
\* further on in the order (the last entry from the first key)
ExtractShifted(features, featureOrder) ==
  [i \in 1..Len(featureOrder) |->
     CoerceFeature(features, featureOrder[(i % Len(featureOrder)) + 1])]

ExtractInOrder(features, featureOrder) ==
  [i \in 1..Len(featureOrder) |-> CoerceFeature(features, featureOrder[i])]

\* Variant of JsRound that drops the fraction (Math.floor)
JsRoundDown(v) == IF v.k = "nan" THEN NaN ELSE Num((v.n \div Fix) * Fix)

\* Math.round: the nearest integer, ties toward +infinity; NaN stays NaN
JsRound(v) == IF v.k = "nan" THEN NaN ELSE Num(((v.n + (Fix \div 2)) \div Fix) * Fix)

\* Float32Array element store: a 24-bit significand.  On the fixed-point grid
\* values below 2^24 hundredths are kept and larger ones lose their low bits.
RECURSIVE Quantum(_)
Quantum(n) == IF n < 16777216 THEN 1 ELSE 2 * Quantum(n \div 2)

ToFloat32(v) ==
  IF v.k = "nan" THEN NaN
  ELSE LET q == Quantum(AbsInt(v.n)) IN Num((v.n \div q) * q)

\* new BigInt64Array(featureArray.map(v => BigInt(Math.round(v)))):
\* BigInt(NaN) throws a RangeError.  (Magnitudes stay far below 2^63.)
EncodeInt64(arr) ==
  IF \E i \in DOMAIN arr : JsRound(arr[i]).k = "nan" THEN Throw("RangeError")
  ELSE Ok([i \in DOMAIN arr |-> JsRound(arr[i])])

EncodeFloat32(arr) == Ok([i \in DOMAIN arr |-> ToFloat32(arr[i])])

prepareONNXInput(features, modelType) ==
  CASE modelType = "qr"    -> EncodeInt64(ExtractInOrder(features, QROrder))
    [] modelType = "ibft"  -> EncodeFloat32(ExtractInOrder(features, IBFTOrder))
    [] modelType = "topup" -> EncodeFloat32(ExtractInOrder(features, TopupOrder))
    [] OTHER               -> Throw("Unknown model type")

RequiredFeatures == {"amount_usd", "amount_log", "txn_type_idx", "billing_lat", "billing_long"}

\* validateFeatures: the required keys that are undefined or null
MissingFeatures(features) ==
  {key \in RequiredFeatures : Get(features, key).k \in {"undef", "null"}}

validateFeatures(features) ==
  [isValid |-> MissingFeatures(features) = {}, missingFeatures |-> MissingFeatures(features)]


(***************************************************************************)
(* FraudDetectionService: prediction                                       *)
(* (src/src/services/fraudDetectionService.js)                             *)
(***************************************************************************)
\* A session-table entry, as this.models.get(modelType) returns it:
\*   "absent"  no entry (undefined)       "null"    set to null by a failed load
\*   "single"  {model: session, type}     "python"  the string 'python'
EntryStates == {"absent", "null", "single", "python"}

BigInt(n) == [k |-> "bigint", n |-> n, s |-> ""]

\* A prediction result {fraudScore, confidence, modelVersion}; the mock sets no
\* modelVersion
Prediction(score, conf, version) ==
  [fraudScore |-> score, confidence |-> conf, modelVersion |-> version]

\* if (cond) fraudScore += w
AddIf(cond, w) == IF cond THEN w ELSE 0

\* Variant of mockPrediction whose comparisons are inclusive (>= instead of >)
mockPredictionInclusive(features, modelType) ==
  LET fraudScore ==
        10
        + AddIf(JsGe(Get(features, "amount_usd"), Num(10000 * Fix)), 30)
        + AddIf(Truthy(Get(features, "is_night")), 20)
        + AddIf(JsGe(Get(features, "geo_distance_from_last_txn"), Num(1000 * Fix)), 25)
        + AddIf(JsGe(Get(features, "velocity_1h"), Num(5 * Fix)), 20)
        + AddIf(Truthy(Get(features, "is_new_device")), 15)
        + AddIf(Truthy(Get(features, "suspicious_agent")), 10)
  IN Prediction(JsMin(Num(fraudScore), Num(Fix)), Num(70), "")

mockPrediction(features, modelType) ==
  LET fraudScore ==
        10
        + AddIf(JsGt(Get(features, "amount_usd"), Num(10000 * Fix)), 30)
        + AddIf(Truthy(Get(features, "is_night")), 20)
        + AddIf(JsGt(Get(features, "geo_distance_from_last_txn"), Num(1000 * Fix)), 25)
        + AddIf(JsGt(Get(features, "velocity_1h"), Num(5 * Fix)), 20)
        + AddIf(Truthy(Get(features, "is_new_device")), 15)
        + AddIf(Truthy(Get(features, "suspicious_agent")), 10)
  IN Prediction(JsMin(Num(fraudScore), Num(Fix)), Num(70), "")

\* Math.min(Math.max(fraudScore, 0), 1): a BigInt operand throws a TypeError
Clamp01(v) ==
  IF v.k = "bigint" THEN Throw("TypeError")
  ELSE Ok(JsMin(JsMax(v, Num(0)), Num(Fix)))

\* data.length > 1 ? data[1] : data[0]
PickFraudClass(data) ==
  IF Len(data) > 1 THEN data[2]
  ELSE IF Len(data) = 1 THEN data[1] ELSE Undef

\* A named output of session.run: a tensor with its data, or no such output
Tensor(data) == [has |-> TRUE, data |-> data]
NoTensor == [has |-> FALSE, data |-> <<>>]

\* Variant of ExtractQRScore that prefers the label output to the probabilities
ExtractQRScoreLabelFirst(output) ==
  IF output.label.has
  THEN IF Len(output.label.data) >= 1 THEN output.label.data[1] ELSE Undef
  ELSE IF output.probabilities.has THEN PickFraudClass(output.probabilities.data)
       ELSE PickFraudClass(output.first.data)

\* The score taken from the outputs of session.run (lines 221-235)
ExtractQRScore(output) ==
  IF output.probabilities.has THEN PickFraudClass(output.probabilities.data)
  ELSE IF output.label.has
       THEN IF Len(output.label.data) >= 1 THEN output.label.data[1] ELSE Undef
       ELSE PickFraudClass(output.first.data)

\* The try block of predictQR.  run is what `await session.run(feeds)` yields:
\* [kind |-> "throw"] or [kind |-> "output", probabilities, label, first].  A
\* modelConfig that is the string 'python' has no inputNames, so building the
\* feeds throws.
predictQRTry(features, modelConfig, run) ==
  LET input == prepareONNXInput(features, "qr") IN
  IF ~input.ok THEN Throw(input.err)
  ELSE IF modelConfig # "single" THEN Throw("TypeError")
  ELSE IF run.kind = "throw" THEN Throw("InferenceError")
  ELSE LET clamped == Clamp01(ExtractQRScore(run)) IN
       IF ~clamped.ok THEN Throw(clamped.err)
       ELSE Ok(Prediction(clamped.val, Num(90), "qr_xgb_v1"))

\* predictQR: the catch returns the mock prediction
predictQR(features, modelConfig, run) ==
  LET r == predictQRTry(features, modelConfig, run) IN
  IF r.ok THEN r.val ELSE mockPrediction(features, "qr")

\* The score taken from the reply of the Python runner (lines 271-280).
\* reply.predictions is absent (NoTensor) or an array; its second element is
\* [shape |-> "array", data], [shape |-> "object", one] (one = the value under
\* key '1', Undef when the key is missing) or [shape |-> "null"].
ExtractPythonScore(reply) ==
  IF ~reply.predictions.has \/ Len(reply.predictions.data) <= 1 THEN Ok(Num(0))
  ELSE LET probabilities == reply.predictions.data[2] IN
       CASE probabilities.shape = "array" ->
              IF Len(probabilities.data) > 1 THEN Ok(probabilities.data[2])
              ELSE Ok(Num(0))
         [] probabilities.shape = "null" -> Throw("TypeError")
         [] OTHER ->
              IF Truthy(probabilities.one) THEN Ok(probabilities.one) ELSE Ok(Num(0))

\* The try block shared by predictIBFT and predictTopup.  res is what
\* `await this.pythonService.runInference(...)` yields: [kind |-> "reject"] or
\* [kind |-> "reply", success, predictions].
PythonPredictionTry(features, modelType, res, version) ==
  LET input == prepareONNXInput(features, modelType) IN
  IF ~input.ok THEN Throw(input.err)
  ELSE IF res.kind = "reject" THEN Throw("InferenceError")
  ELSE IF ~res.success THEN Throw("PythonError")
  ELSE LET raw == ExtractPythonScore(res) IN
       IF ~raw.ok THEN Throw(raw.err)
       ELSE Ok(Prediction(JsMin(JsMax(raw.val, Num(0)), Num(Fix)),
                          JsMul(JsAbs(JsSub(raw.val, Num(50))), Num(2 * Fix)),
                          version))

\* Variant of predictIBFT whose catch reports a clean transaction instead of
\* the mock prediction
predictIBFTScoresZero(features, modelConfig, res) ==
  LET r == PythonPredictionTry(features, "ibft", res, "ibft_model_v1_python") IN
  IF r.ok THEN r.val ELSE Prediction(Num(0), Num(Fix), "ibft_model_v1_python")

predictIBFT(features, modelConfig, res) ==
  LET r == PythonPredictionTry(features, "ibft", res, "ibft_model_v1_python") IN
  IF r.ok THEN r.val ELSE mockPrediction(features, "ibft")

predictTopup(features, modelConfig, res) ==
  LET r == PythonPredictionTry(features, "topup", res, "topup_model_v1_python") IN
  IF r.ok THEN r.val ELSE mockPrediction(features, "topup")

\* this.models.get(modelType): undefined ("absent") for a key never set
TableGet(table, modelType) ==
  IF modelType \in DOMAIN table THEN table[modelType] ELSE "absent"

\* !modelConfig
EntryFalsy(modelConfig) == modelConfig \in {"absent", "null"}

\* The try block of predict.  outcome is the value its one await yields.
predictTry(features, modelType, modelConfig, outcome) ==
  IF EntryFalsy(modelConfig) THEN Ok(mockPrediction(features, modelType))
  ELSE CASE modelType = "qr"    -> Ok(predictQR(features, modelConfig, outcome))
         [] modelType = "ibft"  -> Ok(predictIBFT(features, modelConfig, outcome))
         [] modelType = "topup" -> Ok(predictTopup(features, modelConfig, outcome))
         [] OTHER               -> Throw("Unsupported model type")

\* predict: every throw of the try block lands in the catch, which returns the
\* mock prediction
predict(features, modelType, modelConfig, outcome) ==
  LET r == predictTry(features, modelType, modelConfig, outcome) IN
  IF r.ok THEN r ELSE Ok(mockPrediction(features, modelType))

\* Whether predict reaches its await (session.run or runInference) at all
AwaitsInference(features, modelType, modelConfig) ==
  /\ ~EntryFalsy(modelConfig)
  /\ modelType \in ModelTypes
  /\ prepareONNXInput(features, modelType).ok
  /\ modelType = "qr" => modelConfig = "single"


(***************************************************************************)
(* FraudDetectionService: detectFraud                                      *)
(***************************************************************************)
\* String.prototype.toLowerCase on the transaction types of this model
ToLowerCase(str) ==
  CASE str \in {"QR", "qr", "Qr"}          -> "qr"
    [] str \in {"IBFT", "ibft", "Ibft"}    -> "ibft"
    [] str \in {"TOPUP", "topup", "TopUp"} -> "topup"
    [] str \in {"WIRE", "wire"}            -> "wire"
    [] OTHER                               -> str

\* transactionData.transaction?.txn_type?.toLowerCase(): Undef when the section
\* or the field is absent
TxnTypeOf(ev) ==
  LET t == IF SectionAbsent(ev, "transaction") THEN Undef
           ELSE Get(ev.transaction, "txn_type") IN
  IF t.k = "str" THEN Str(ToLowerCase(t.s)) ELSE Undef

\* !txnType || !['qr', 'ibft', 'topup'].includes(txnType)
UnsupportedType(txnType) == ~Truthy(txnType) \/ txnType.s \notin ModelTypes

\* "Fill in missing optional fields with defaults" (lines 114-130)
FillDefaults(f) ==
  LET amountOr0 == JsOr(Get(f, "amount_usd"), Num(0))
      patch ==
        [ amount_log |-> JsOr(Get(f, "amount_log"),
                              JsLog10(JsOr(Get(f, "amount_usd"), Num(Fix)))),
          geo_distance_from_last_txn |-> JsOr(Get(f, "geo_distance_from_last_txn"), Num(0)),
          seconds_since_last_txn |-> JsOr(Get(f, "seconds_since_last_txn"), Num(0)),
          sum_amount_1h |-> JsOr(Get(f, "sum_amount_1h"), amountOr0),
          avg_amount_1h |-> JsOr(Get(f, "avg_amount_1h"), amountOr0),
          txn_count_1h |-> JsOr(Get(f, "txn_count_1h"), Num(Fix)),
          sum_amount_24h |-> JsOr(Get(f, "sum_amount_24h"), amountOr0),
          avg_amount_24h |-> JsOr(Get(f, "avg_amount_24h"), amountOr0),
          txn_count_24h |-> JsOr(Get(f, "txn_count_24h"), Num(Fix)),
          velocity_1h |-> JsOr(Get(f, "velocity_1h"), Num(Fix)),
          rank_amount_per_day |-> JsOr(Get(f, "rank_amount_per_day"), Num(Fix)),
          same_device_txn_1h |-> JsOr(Get(f, "same_device_txn_1h"), Num(Fix)),
          lat_shift |-> JsOr(Get(f, "lat_shift"), Num(0)),
          lng_shift |-> JsOr(Get(f, "lng_shift"), Num(0)),
          geo_speed_km_per_min |-> JsOr(Get(f, "geo_speed_km_per_min"), Num(0)),
          change_in_user_agent |-> JsOr(Get(f, "change_in_user_agent"), Num(0)) ]
  IN [k \in (DOMAIN f) \cup (DOMAIN patch) |->
        IF k \in DOMAIN patch THEN patch[k] ELSE f[k]]

\* detectFraud up to its first await (`await this.predict(...)`, whose own
\* first statement is the session lookup): either a throw, or the features,
\* model type and session entry the prediction goes on with.
DetectFraudSync(ev, initialized, table) ==
  IF ~initialized THEN Throw("Fraud detection service not initialized")
  ELSE LET txnType == TxnTypeOf(ev) IN
    IF UnsupportedType(txnType) THEN Throw("Unsupported transaction type")
    ELSE LET mapped == mapKafkaToModelFeatures(ev) IN
      IF ~mapped.ok THEN Throw(mapped.err)
      ELSE LET features == FillDefaults(mapped.val) IN
        IF ~validateFeatures(features).isValid THEN Throw("Missing required features")
        ELSE Ok([features |-> features, txnType |-> txnType.s,
                 modelConfig |-> TableGet(table, txnType.s)])

\* Variant of classifyRisk that gives ibft the cutoff of the other two types
classifyRiskOneCutoff(score, modelType, th) ==
  CASE modelType \in ModelTypes ->
         IF JsGe(score, Num(85)) THEN "high"
         ELSE IF JsGe(score, Num(th[modelType])) THEN "medium" ELSE "low"
    [] OTHER -> "unknown"

\* Variant of classifyRisk that tests the configured threshold before the
\* high-risk cutoff
classifyRiskThresholdFirst(score, modelType, th) ==
  CASE modelType \in ModelTypes ->
         IF JsGe(score, Num(th[modelType])) THEN "medium"
         ELSE IF JsGe(score, Num(IF modelType = "ibft" THEN 90 ELSE 85)) THEN "high"
         ELSE "low"
    [] OTHER -> "unknown"

classifyRisk(score, modelType, th) ==
  CASE modelType = "qr" ->
         IF JsGe(score, Num(85)) THEN "high"
         ELSE IF JsGe(score, Num(th["qr"])) THEN "medium" ELSE "low"
    [] modelType = "ibft" ->
         IF JsGe(score, Num(90)) THEN "high"
         ELSE IF JsGe(score, Num(th["ibft"])) THEN "medium" ELSE "low"
    [] modelType = "topup" ->
         IF JsGe(score, Num(85)) THEN "high"
         ELSE IF JsGe(score, Num(th["topup"])) THEN "medium" ELSE "low"
    [] OTHER -> "unknown"

\* Variant of MakeResult whose isFraud test is inclusive (>= instead of >)
MakeResultInclusive(txnType, prediction, th) ==
  [ modelType |-> txnType,
    fraudScore |-> prediction.fraudScore,
    isFraud |-> JsGe(prediction.fraudScore, Num(th[txnType])),
    threshold |-> th[txnType],
    confidence |-> prediction.confidence,
    modelVersion |-> prediction.modelVersion,
    riskLevel |-> classifyRisk(prediction.fraudScore, txnType, th) ]

\* The result object of detectFraud (lines 142-155)
MakeResult(txnType, prediction, th) ==
  [ modelType |-> txnType,
    fraudScore |-> prediction.fraudScore,
    isFraud |-> JsGt(prediction.fraudScore, Num(th[txnType])),
    threshold |-> th[txnType],
    confidence |-> prediction.confidence,
    modelVersion |-> prediction.modelVersion,
    riskLevel |-> classifyRisk(prediction.fraudScore, txnType, th) ]

\* The thresholds of the constructor when no environment variable overrides them
DefaultThresholds == [m \in ModelTypes |-> 50]

(***************************************************************************)
(* DecisionService (src/unnamed/part_005)                                  *)
(***************************************************************************)
\* An action {type, reason, confidence, requiresReview}
Action(type, reason, confidence, requiresReview) ==
  [type |-> type, reason |-> reason, confidence |-> confidence,
   requiresReview |-> requiresReview]

\* Variant of determineAction whose bounds are exclusive (> instead of >=)
determineActionExclusive(fraudResult) ==
  LET fraudScore == fraudResult.fraudScore IN
  IF JsGt(fraudScore, Num(90))
  THEN Action("BLOCK", "Critical fraud risk detected", "HIGH", FALSE)
  ELSE IF JsGt(fraudScore, Num(70))
  THEN Action("BLOCK", "High fraud risk detected", "HIGH", TRUE)
  ELSE IF JsGt(fraudScore, Num(50))
  THEN Action("CHALLENGE", "Moderate fraud risk - additional verification required",
              "MEDIUM", TRUE)
  ELSE IF JsGt(fraudScore, Num(30))
  THEN Action("MONITOR", "Low fraud risk - monitoring recommended", "MEDIUM", FALSE)
  ELSE Action("ALLOW", "Low fraud risk",
              IF JsGe(fraudResult.confidence, Num(70)) THEN "HIGH" ELSE "MEDIUM", FALSE)

\* determineAction(fraudResult): fraudResult has fraudScore, isFraud, confidence
determineAction(fraudResult) ==
  LET fraudScore == fraudResult.fraudScore IN
  IF JsGe(fraudScore, Num(90))
  THEN Action("BLOCK", "Critical fraud risk detected", "HIGH", FALSE)
  ELSE IF JsGe(fraudScore, Num(70))
  THEN Action("BLOCK", "High fraud risk detected", "HIGH", TRUE)
  ELSE IF JsGe(fraudScore, Num(50))
  THEN Action("CHALLENGE", "Moderate fraud risk - additional verification required",
              "MEDIUM", TRUE)
  ELSE IF JsGe(fraudScore, Num(30))
  THEN Action("MONITOR", "Low fraud risk - monitoring recommended", "MEDIUM", FALSE)
  ELSE Action("ALLOW", "Low fraud risk",
              IF JsGe(fraudResult.confidence, Num(70)) THEN "HIGH" ELSE "MEDIUM", FALSE)

\* DecisionService.getRiskLevel
getRiskLevel(fraudScore) ==
  IF JsGe(fraudScore, Num(80)) THEN "CRITICAL"
  ELSE IF JsGe(fraudScore, Num(60)) THEN "HIGH"
  ELSE IF JsGe(fraudScore, Num(40)) THEN "MEDIUM"
  ELSE IF JsGe(fraudScore, Num(20)) THEN "LOW"
  ELSE "MINIMAL"

\* createDecision: the riskAssessment and decision parts of the record
createDecision(fraudResult) ==
  LET action == determineAction(fraudResult) IN
  [ riskAssessment |->
      [ fraudScore |-> fraudResult.fraudScore, isFraud |-> fraudResult.isFraud,
        modelType |-> fraudResult.modelType, confidence |-> fraudResult.confidence,
        threshold |-> fraudResult.threshold ],
    decision |->
      [ action |-> action.type, reason |-> action.reason,
        confidence |-> action.confidence, requiresReview |-> action.requiresReview,
        riskLevel |-> getRiskLevel(fraudResult.fraudScore) ] ]

\* The body POST /api/predict answers with: the result of predictTransaction,
\* which is the result of detectFraud (requestId and processingTimeMs left out)
ApiPredictBody(result) == [success |-> TRUE, result |-> result]

(***************************************************************************)
(* Inputs                                                                  *)
(***************************************************************************)
\* An object from a record whose Undef fields are left out
Present(rec) == [f \in {g \in DOMAIN rec : rec[g] # Undef} |-> rec[f]]

\* when(b, v): the value v of an optional field that is present iff b
When(b, v) == IF b THEN v ELSE Undef

\* A raw event.  tt, amt, lat, lng, geo, secs, cnt and avg are the values of
\* txn_type, amount_raw, billing_lat, billing_long, geo_distance_from_last_txn,
\* seconds_since_last_txn, user_txn_count_1h and user_amount_avg_24h (Undef:
\* the field is absent); rest tells whether the other optional fields are
\* present; gone is the section that is absent as a whole ("none": no section).
MkEvent(tt, amt, lat, lng, geo, secs, cnt, avg, rest, gone) ==
  LET all ==
    [ transaction |-> Present(
        [ txn_type |-> tt, amount_raw |-> amt,
          amount_log |-> When(rest, Num(731)),
          currency |-> When(rest, Str("EUR")) ]),
      temporal |-> Present(
        [ hour |-> When(rest, Num(23 * Fix)),
          is_weekend |-> When(rest, Bool(TRUE)),
          is_business_hours |-> When(rest, Bool(FALSE)) ]),
      location |-> Present(
        [ billing_lat |-> lat, billing_long |-> lng,
          geo_distance_from_last_txn |-> geo ]),
      aggregation |-> Present(
        [ user_amount_sum_1h |-> When(rest, Num(300000)),
          user_amount_avg_1h |-> When(rest, Num(150000)),
          user_txn_count_1h |-> cnt,
          user_amount_sum_24h |-> When(rest, Num(400000)),
          user_amount_avg_24h |-> avg,
          user_txn_count_24h |-> When(rest, Num(4 * Fix)),
          seconds_since_last_txn |-> secs,
          device_txn_count_1h |-> When(rest, Num(2 * Fix)),
          user_unique_merchants_1h |-> When(rest, Num(1 * Fix)),
          merchant_txn_count_1h |-> When(rest, Num(10 * Fix)),
          ip_txn_count_1h |-> When(rest, Num(1 * Fix)),
          is_velocity_anomaly |-> When(rest, Bool(TRUE)) ]),
      behavioral |-> Present(
        [ name_is_ascii |-> When(rest, Bool(TRUE)),
          name_has_digit |-> When(rest, Bool(FALSE)),
          is_disposable_email |-> When(rest, Bool(TRUE)),
          is_new_device |-> When(rest, Bool(TRUE)),
          email_domain |-> When(rest, Str("gmail.com")),
          user_agent |-> When(rest, Str("Mozilla/5.0")),
          device_fingerprint |-> When(rest, Str("abc123")) ]) ]
  IN [s \in Sections \ {gone} |-> all[s]]

TxnTypeValues == {Undef, Str("QR"), Str("IBFT"), Str("TOPUP"), Str("qr"), Str("WIRE")}
AmountValues == {Undef, Num(0), Num(150050), Num(2000000)}
LatValues == {Undef, Num(1082)}
LngValues == {Undef, Num(10663)}
GeoValues == {Undef, Num(250), Num(200000)}
SecsValues == {Undef, Num(0), Num(360000)}
CountValues == {Undef, Num(0), Num(6 * Fix)}
AvgValues == {Undef, Num(0), Num(100000)}

\* The raw events of the feature-mapper checks: every combination of the varied
\* fields with all sections present, the full event with one section absent,
\* and the full event at a southern, western position
Events ==
  { MkEvent(tt, amt, lat, lng, geo, secs, cnt, avg, rest, "none") :
      tt \in TxnTypeValues, amt \in AmountValues, lat \in LatValues,
      lng \in LngValues, geo \in GeoValues, secs \in SecsValues,
      cnt \in CountValues, avg \in AvgValues, rest \in BOOLEAN }
  \cup
  { MkEvent(Str("QR"), Num(150050), Num(1082), Num(10663), Num(250),
            Num(360000), Num(6 * Fix), Num(100000), TRUE, gone) : gone \in Sections }
  \cup
  { MkEvent(tt, Num(150050), Num(0 - 3350), Num(0 - 7036), Num(250),
            Num(360000), Num(6 * Fix), Num(100000), TRUE, "none") :
      tt \in {Str("QR"), Str("IBFT"), Str("TOPUP")} }


\* Raw probabilities a model may return, some outside [0,1]
RawScores == {Num(0 - 50), Num(0), Num(50), Num(Fix), Num(150)}

\* The data of an output tensor: one element, or two with the fraud class last
OutputData == {<<b>> : b \in RawScores} \cup {<<Num(20), b>> : b \in RawScores}

\* What `await session.run(feeds)` yields in predictQR.  An int64 label tensor
\* holds BigInt elements.
QROutcomes ==
  {[kind |-> "throw", probabilities |-> NoTensor, label |-> NoTensor, first |-> NoTensor]}
  \cup
  { [kind |-> "output", probabilities |-> p, label |-> l, first |-> f] :
      p \in {NoTensor} \cup {Tensor(d) : d \in OutputData},
      l \in {NoTensor, Tensor(<<BigInt(1)>>), Tensor(<<Num(Fix)>>),
             Tensor(<<Num(0), Num(Fix)>>)},
      f \in {Tensor(<<Num(150)>>), Tensor(<<Num(20), Num(50)>>)} }

\* The elements of the runner's predictions: the label output first, then the
\* probabilities
LabelShape == [shape |-> "array", data |-> <<Num(Fix)>>, one |-> Undef]

ProbabilityShapes ==
  { [shape |-> "array", data |-> d, one |-> Undef] : d \in OutputData }
  \cup { [shape |-> "object", data |-> <<>>, one |-> v] : v \in RawScores \cup {Undef} }
  \cup { [shape |-> "null", data |-> <<>>, one |-> Undef] }

\* What `await this.pythonService.runInference(...)` yields
PythonOutcomes ==
  {[kind |-> "reject", success |-> FALSE, predictions |-> NoTensor]}
  \cup
  { [kind |-> "reply", success |-> ok, predictions |-> pr] :
      ok \in BOOLEAN,
      pr \in {NoTensor, Tensor(<<LabelShape>>)}
              \cup { Tensor(<<LabelShape, ps>>) : ps \in ProbabilityShapes } }

\* The outcomes the await of predict can have for a model type
OutcomesFor(modelType) == IF modelType = "qr" THEN QROutcomes ELSE PythonOutcomes

\* The outcome handed to predict when it returns without awaiting
NoOutcome ==
  [kind |-> "none", probabilities |-> NoTensor, label |-> NoTensor, first |-> NoTensor]

(***************************************************************************)
(* State                                                                   *)
(***************************************************************************)
VARIABLES
  models,         \* this.models: model type -> session entry
  isInitialized,  \* this.isInitialized
  thresholds,     \* this.thresholds, in hundredths
  sinks,          \* alertService.isEnabled, decisionService.isEnabled
  inflight,       \* initialize() calls awaiting InferenceSession.create, by caller
  lastInit,       \* how the last settled initialize()/reloadModels() ended
  preReload,      \* table and flag when the oldest reload in flight was called
  req,            \* the detectFraud / predict call in flight
  inp,            \* the input of the pure-function checks
  out             \* the output of the pure-function checks

vars ==
  <<models, isInitialized, thresholds, sinks, inflight, lastInit, preReload, req, inp, out>>

serviceVars ==
  <<models, isInitialized, thresholds, sinks, inflight, lastInit, preReload, req>>

\* The number of initialize()/reloadModels() calls in flight at once
MaxInits == 2

EmptyTable == [m \in ModelTypes |-> "absent"]

\* The table a successful initialize leaves
LoadedTable == [m \in ModelTypes |-> IF m = "qr" THEN "single" ELSE "python"]

NoFeatures == [none |-> Undef]
NoPrediction == Prediction(Undef, Undef, "")
NoResult == [ modelType |-> "", fraudScore |-> Undef, isFraud |-> FALSE, threshold |-> 0,
              confidence |-> Undef, modelVersion |-> "", riskLevel |-> "" ]

IdleReq ==
  [ pc |-> "idle", entry |-> "", txnType |-> "", features |-> NoFeatures,
    modelConfig |-> "absent", prediction |-> NoPrediction, result |-> NoResult,
    error |-> "", alert |-> "none", decision |-> "none",
    reloading |-> FALSE, lookedUp |-> FALSE, tableAtLookup |-> EmptyTable,
    wellFormed |-> FALSE, missing |-> {}, rawType |-> Undef,
    handed |-> [alert |-> 0, decision |-> 0],
    sinkFailed |-> [alert |-> FALSE, decision |-> FALSE] ]

NoInput == [kind |-> "none"]
NoOutput == [kind |-> "none"]

\* A reloadModels() call has started and not settled
ReloadInProgress == inflight.reload > 0

\* Every model type has an entry (a session, a handle or null)
Complete(table) == \A m \in ModelTypes : table[m] # "absent"

\* A reload is in progress that was called on an initialized service whose
\* table was complete
ReloadOfLoaded ==
  ReloadInProgress /\ preReload.initialized /\ Complete(preReload.table)

InFlight == inflight.initialize + inflight.reload

(***************************************************************************)
(* initialize / reloadModels                                               *)
(***************************************************************************)
\* The state after the constructor
ServiceInit ==
  /\ models = EmptyTable
  /\ isInitialized = FALSE
  /\ thresholds = DefaultThresholds
  /\ sinks \in [alert : BOOLEAN, decision : BOOLEAN]
  /\ inflight = [initialize |-> 0, reload |-> 0]
  /\ lastInit = [via |-> "none", outcome |-> "none", loadFailed |-> FALSE]
  /\ preReload = [table |-> EmptyTable, initialized |-> FALSE]
  /\ req = IdleReq

\* initialize() up to `await ort.InferenceSession.create(modelPath)`
Initialize ==
  /\ InFlight < MaxInits
  /\ inflight' = [inflight EXCEPT !.initialize = @ + 1]
  /\ UNCHANGED <<models, isInitialized, thresholds, sinks, lastInit, preReload, req, inp, out>>

\* Variant of ReloadModels that clears the table and leaves the flag as it is
ReloadModelsKeepingFlag ==
  /\ InFlight < MaxInits
  /\ models' = EmptyTable
  /\ inflight' = [inflight EXCEPT !.reload = @ + 1]
  /\ preReload' = IF ReloadInProgress THEN preReload
                  ELSE [table |-> models, initialized |-> isInitialized]
  /\ UNCHANGED <<isInitialized, thresholds, sinks, lastInit, req, inp, out>>

\* reloadModels() up to the same await inside the initialize() it calls
ReloadModels ==
  /\ InFlight < MaxInits
  /\ isInitialized' = FALSE
  /\ models' = EmptyTable
  /\ inflight' = [inflight EXCEPT !.reload = @ + 1]
  /\ preReload' = IF ReloadInProgress THEN preReload
                  ELSE [table |-> models, initialized |-> isInitialized]
  /\ UNCHANGED <<thresholds, sinks, lastInit, req, inp, out>>

\* Variant of AfterLoadSuccess that only stores the new session
AfterLoadSuccessSessionOnly(table) == [table EXCEPT !["qr"] = "single"]

\* The table and flag after the session was created: loadSingleModel sets the
\* qr entry and initialize goes on to its end
AfterLoadSuccess(table) ==
  [table EXCEPT !["qr"] = "single", !["ibft"] = "python", !["topup"] = "python"]

\* Variant of AfterLoadFailure that leaves the table as it is
AfterLoadFailureNoEntry(table) == table

\* The table after create() rejected: loadSingleModel sets the entry to null
AfterLoadFailure(table) == [table EXCEPT !["qr"] = "null"]

\* isInitialized after loadSingleModel threw: initialize rethrows before line 41
InitializedAfterFailure(flag) == flag

\* How initialize() settles after loadSingleModel threw
OutcomeAfterFailure == "rejected"

\* create() resolved: the continuations of loadSingleModel and initialize (and of
\* reloadModels) run back to back in one microtask drain
LoadSucceeds(via) ==
  /\ inflight[via] > 0
  /\ models' = AfterLoadSuccess(models)
  /\ isInitialized' = TRUE
  /\ inflight' = [inflight EXCEPT ![via] = @ - 1]
  /\ lastInit' = [via |-> via, outcome |-> "resolved", loadFailed |-> FALSE]
  /\ UNCHANGED <<thresholds, sinks, preReload, req, inp, out>>

\* create() rejected: loadSingleModel's catch sets null and rethrows, and
\* initialize's catch rethrows
LoadFails(via) ==
  /\ inflight[via] > 0
  /\ models' = AfterLoadFailure(models)
  /\ isInitialized' = InitializedAfterFailure(isInitialized)
  /\ inflight' = [inflight EXCEPT ![via] = @ - 1]
  /\ lastInit' = [via |-> via, outcome |-> OutcomeAfterFailure, loadFailed |-> TRUE]
  /\ UNCHANGED <<thresholds, sinks, preReload, req, inp, out>>


(***************************************************************************)
(* Requests                                                                *)
(***************************************************************************)
RequiredRawFields == {"txn_type", "amount_raw", "billing_lat", "billing_long"}

\* The value of a required raw field (Undef when it or its section is absent)
RawField(ev, field) ==
  LET sec == IF field \in {"txn_type", "amount_raw"} THEN "transaction" ELSE "location" IN
  IF SectionAbsent(ev, sec) THEN Undef ELSE Get(ev[sec], field)

\* The required raw fields an event lacks
MissingRequired(ev) == {f \in RequiredRawFields : RawField(ev, f) = Undef}

\* A supported, well-formed transaction: its sections and required fields are
\* there and its type is one of the three
WellFormed(ev) ==
  /\ \A s \in Sections : ~SectionAbsent(ev, s)
  /\ MissingRequired(ev) = {}
  /\ ~UnsupportedType(TxnTypeOf(ev))

\* The raw events the service is driven with
ServiceEvents ==
  { MkEvent(Str("QR"), Num(150050), Num(1082), Num(10663), Num(250),
            Num(360000), Num(6 * Fix), Num(100000), TRUE, "none"),
    MkEvent(Str("QR"), Num(150050), Num(1082), Num(10663), Undef,
            Undef, Undef, Undef, FALSE, "none"),
    MkEvent(Str("IBFT"), Num(2000000), Num(1082), Num(10663), Num(200000),
            Num(360000), Num(6 * Fix), Num(100000), TRUE, "none"),
    MkEvent(Str("TOPUP"), Num(150050), Num(1082), Num(10663), Num(250),
            Undef, Undef, Undef, FALSE, "none"),
    MkEvent(Str("IBFT"), Undef, Num(1082), Num(10663), Num(250),
            Num(360000), Num(6 * Fix), Num(100000), TRUE, "none"),
    MkEvent(Str("QR"), Num(150050), Undef, Num(10663), Num(250),
            Num(360000), Num(6 * Fix), Num(100000), TRUE, "none"),
    MkEvent(Str("WIRE"), Num(150050), Num(1082), Num(10663), Num(250),
            Num(360000), Num(6 * Fix), Num(100000), TRUE, "none") }

\* The inference outcomes the service is driven with
ServiceOutcomes(modelType) ==
  IF modelType = "qr"
  THEN { o \in QROutcomes :
           \/ o.kind = "throw"
           \/ /\ ~o.label.has
              /\ o.first = Tensor(<<Num(150)>>)
              /\ o.probabilities \in {NoTensor, Tensor(<<Num(20), Num(50)>>),
                                      Tensor(<<Num(20), Num(150)>>)} }
  ELSE { o \in PythonOutcomes :
           \/ o.kind = "reject"
           \/ ~o.predictions.has
           \/ /\ o.success
              /\ Len(o.predictions.data) = 2
              /\ o.predictions.data[2].shape = "array"
              /\ o.predictions.data[2].data \in {<<Num(20), Num(0)>>, <<Num(20), Num(150)>>} }

\* The feature maps of direct predict() calls
DirectFeatures ==
  { FillDefaults(mapKafkaToModelFeatures(ev).val) :
      ev \in {e \in ServiceEvents : WellFormed(e) /\ TxnTypeOf(e) = Str("qr")} }

\* detectFraud(transactionData), from its call to its first await
DetectFraudStart(ev) ==
  /\ req.pc = "idle"
  /\ LET r == DetectFraudSync(ev, isInitialized, models)
         base == [IdleReq EXCEPT !.entry = "detectFraud",
                                 !.reloading = ReloadOfLoaded,
                                 !.wellFormed = WellFormed(ev),
                                 !.missing = MissingRequired(ev),
                                 !.rawType = TxnTypeOf(ev)]
     IN IF ~r.ok
        THEN req' = [base EXCEPT !.pc = "failed", !.error = r.err]
        ELSE LET looked == [base EXCEPT !.txnType = r.val.txnType,
                                        !.features = r.val.features,
                                        !.modelConfig = r.val.modelConfig,
                                        !.lookedUp = TRUE,
                                        !.tableAtLookup = models]
             IN IF AwaitsInference(r.val.features, r.val.txnType, r.val.modelConfig)
                THEN req' = [looked EXCEPT !.pc = "inferring"]
                ELSE req' = [looked EXCEPT
                               !.pc = "predicted",
                               !.prediction = predict(r.val.features, r.val.txnType,
                                                      r.val.modelConfig, NoOutcome).val]
  /\ UNCHANGED <<models, isInitialized, thresholds, sinks, inflight, lastInit, preReload, inp, out>>

\* predict(features, modelType) called directly, up to its await
PredictStart(features, modelType) ==
  /\ req.pc = "idle"
  /\ LET looked == [IdleReq EXCEPT !.entry = "predict",
                                   !.reloading = ReloadOfLoaded,
                                   !.txnType = modelType,
                                   !.rawType = Str(modelType),
                                   !.features = features,
                                   !.modelConfig = TableGet(models, modelType),
                                   !.lookedUp = TRUE,
                                   !.tableAtLookup = models]
     IN IF AwaitsInference(features, modelType, looked.modelConfig)
        THEN req' = [looked EXCEPT !.pc = "inferring"]
        ELSE LET r == predict(features, modelType, looked.modelConfig, NoOutcome) IN
             IF r.ok THEN req' = [looked EXCEPT !.pc = "predicted", !.prediction = r.val]
             ELSE req' = [looked EXCEPT !.pc = "failed", !.error = r.err]
  /\ UNCHANGED <<models, isInitialized, thresholds, sinks, inflight, lastInit, preReload, inp, out>>


\* The await of predict settles: session.run or runInference returned or threw
InferenceCompletes(outcome) ==
  /\ req.pc = "inferring"
  /\ LET r == predict(req.features, req.txnType, req.modelConfig, outcome) IN
     IF r.ok THEN req' = [req EXCEPT !.pc = "predicted", !.prediction = r.val]
     ELSE req' = [req EXCEPT !.pc = "failed", !.error = r.err]
  /\ UNCHANGED <<models, isInitialized, thresholds, sinks, inflight, lastInit, preReload, inp, out>>

\* The try block of sendFraudAlert: the alert is published when the sink is
\* enabled (a rejected publish throws) and logged otherwise
sendFraudAlertTry(enabled, published) ==
  IF enabled THEN IF published THEN Ok("sent") ELSE Throw("SNS publish failed")
  ELSE Ok("logged")

\* sendFraudAlert: the catch logs the alert
sendFraudAlert(enabled, published) ==
  LET r == sendFraudAlertTry(enabled, published) IN
  IF r.ok THEN r ELSE Ok("logged")

\* handleFraudDetection: what became of the alert; its catch swallows every
\* throw of sendFraudAlert
handleFraudDetection(enabled, published) ==
  LET r == sendFraudAlert(enabled, published) IN
  IF r.ok THEN r.val ELSE "dropped"

\* The try block of sendDecision: the record is posted when the sink is enabled
\* (a failed or timed-out POST throws) and logged otherwise
sendDecisionTry(enabled, posted) ==
  IF enabled THEN IF posted THEN Ok("sent") ELSE Throw("Decision POST failed")
  ELSE Ok("logged")

\* Variant of sendDecision without the catch
sendDecisionNoCatch(enabled, posted) == sendDecisionTry(enabled, posted)

\* sendDecision: the catch logs the decision
sendDecision(enabled, posted) ==
  LET r == sendDecisionTry(enabled, posted) IN
  IF r.ok THEN r ELSE Ok("logged")

\* A record that was sent or logged has been handed off
Handed(n, outcome) == IF outcome \in {"sent", "logged"} THEN n + 1 ELSE n

\* handleFraudDetection up to its await: a disabled sink logs the alert at once
AlertStarted == IF sinks.alert THEN "pending" ELSE handleFraudDetection(FALSE, FALSE)

\* sendDecision up to its await: a disabled sink logs the decision at once
DecisionStarted == IF sinks.decision THEN "pending" ELSE sendDecision(FALSE, FALSE).val

\* The request once sendDecision has been called
WithDecisionStarted(r) ==
  [r EXCEPT !.pc = "deciding",
            !.decision = DecisionStarted,
            !.handed.decision = Handed(@, DecisionStarted),
            !.sinkFailed.decision = ~sinks.decision]

\* Variant of BuildResult that does not await handleFraudDetection: the
\* decision is started while the alert is still pending
BuildResultWithoutAwait ==
  /\ req.pc = "predicted"
  /\ req.entry = "detectFraud"
  /\ LET result == MakeResult(req.txnType, req.prediction, thresholds) IN
     IF result.isFraud
     THEN req' = WithDecisionStarted(
                   [req EXCEPT !.result = result,
                               !.alert = AlertStarted,
                               !.handed.alert = Handed(@, AlertStarted),
                               !.sinkFailed.alert = ~sinks.alert])
     ELSE req' = WithDecisionStarted([req EXCEPT !.result = result])
  /\ UNCHANGED <<models, isInitialized, thresholds, sinks, inflight, lastInit, preReload, inp, out>>

\* detectFraud after `await this.predict(...)`: the result object, then the call
\* of handleFraudDetection (if isFraud) or of sendDecision, up to the next await.
BuildResult ==
  /\ req.pc = "predicted"
  /\ req.entry = "detectFraud"
  /\ LET result == MakeResult(req.txnType, req.prediction, thresholds) IN
     IF result.isFraud
     THEN req' = [req EXCEPT !.pc = "alerting", !.result = result,
                             !.alert = AlertStarted,
                             !.handed.alert = Handed(@, AlertStarted),
                             !.sinkFailed.alert = ~sinks.alert]
     ELSE req' = WithDecisionStarted([req EXCEPT !.result = result])
  /\ UNCHANGED <<models, isInitialized, thresholds, sinks, inflight, lastInit, preReload, inp, out>>

\* sendFraudAlert settles (a rejected publish is caught and the alert logged),
\* handleFraudDetection returns and sendDecision is called
AlertSettles(published) ==
  /\ req.pc = "alerting"
  /\ req.alert = "pending" \/ published
  /\ LET alert == IF req.alert = "pending"
                  THEN handleFraudDetection(TRUE, published) ELSE req.alert
     IN req' = WithDecisionStarted(
                 [req EXCEPT !.alert = alert,
                             !.handed.alert =
                               IF req.alert = "pending" THEN Handed(@, alert) ELSE @,
                             !.sinkFailed.alert = @ \/ ~published])
  /\ UNCHANGED <<models, isInitialized, thresholds, sinks, inflight, lastInit, preReload, inp, out>>

\* sendDecision settles (a failed POST is caught and the decision logged) and
\* detectFraud returns the result; a throw of sendDecision would make
\* detectFraud throw
DecisionSettles(posted) ==
  /\ req.pc = "deciding"
  /\ req.decision = "pending" \/ posted
  /\ LET r == IF req.decision = "pending"
              THEN sendDecision(TRUE, posted) ELSE Ok(req.decision)
     IN IF r.ok
        THEN req' = [req EXCEPT
                       !.pc = "returned",
                       !.decision = r.val,
                       !.handed.decision =
                         IF req.decision = "pending" THEN Handed(@, r.val) ELSE @,
                       !.sinkFailed.decision = @ \/ ~posted]
        ELSE req' = [req EXCEPT !.pc = "failed", !.error = r.err,
                                !.sinkFailed.decision = TRUE]
  /\ UNCHANGED <<models, isInitialized, thresholds, sinks, inflight, lastInit, preReload, inp, out>>

\* A direct predict() call returns its prediction
PredictReturns ==
  /\ req.pc = "predicted"
  /\ req.entry = "predict"
  /\ req' = [req EXCEPT !.pc = "returned"]
  /\ UNCHANGED <<models, isInitialized, thresholds, sinks, inflight, lastInit, preReload, inp, out>>

\* The caller has its result or its error; the next call may start
RequestDone ==
  /\ req.pc \in {"returned", "failed"}
  /\ req' = IdleReq
  /\ UNCHANGED <<models, isInitialized, thresholds, sinks, inflight, lastInit, preReload, inp, out>>

Init ==
  /\ ServiceInit
  /\ inp = NoInput
  /\ out = NoOutput

Next ==
  \/ Initialize
  \/ ReloadModels
  \/ \E via \in {"initialize", "reload"} : LoadSucceeds(via)
  \/ \E via \in {"initialize", "reload"} : LoadFails(via)
  \/ \E ev \in ServiceEvents : DetectFraudStart(ev)
  \/ \E f \in DirectFeatures, m \in ModelTypes \cup {"wire"} : PredictStart(f, m)
  \/ \E o \in ServiceOutcomes(req.txnType) : InferenceCompletes(o)
  \/ BuildResult
  \/ \E b \in BOOLEAN : AlertSettles(b)
  \/ \E b \in BOOLEAN : DecisionSettles(b)
  \/ PredictReturns
  \/ RequestDone

Spec == Init /\ [][Next]_vars


(***************************************************************************)
(* detectFraud calls on an initialized service, with progress              *)
(***************************************************************************)
RequestInit ==
  /\ models = LoadedTable
  /\ isInitialized = TRUE
  /\ thresholds = DefaultThresholds
  /\ sinks \in [alert : BOOLEAN, decision : BOOLEAN]
  /\ inflight = [initialize |-> 0, reload |-> 0]
  /\ lastInit = [via |-> "initialize", outcome |-> "resolved", loadFailed |-> FALSE]
  /\ preReload = [table |-> EmptyTable, initialized |-> FALSE]
  /\ req = IdleReq
  /\ inp = NoInput
  /\ out = NoOutput

\* handleFraudDetection returns after an alert that was logged at once (the
\* alert sink is not configured): no I/O is awaited
LoggedAlertReturns == req.alert # "pending" /\ AlertSettles(TRUE)

\* The POST of sendToDecisionSystem settles: axios is given timeout: 5000, so
\* a sink that does not answer makes the call reject
DecisionPostSettles == \E b \in BOOLEAN : DecisionSettles(b)

RequestNext ==
  \/ \E ev \in ServiceEvents : DetectFraudStart(ev)
  \/ \E o \in ServiceOutcomes(req.txnType) : InferenceCompletes(o)
  \/ BuildResult
  \/ \E b \in BOOLEAN : AlertSettles(b)
  \/ DecisionPostSettles
  \/ RequestDone

\* Continuations run once their await has settled, and the decision POST
\* settles within its timeout.  sns.publish(...).promise() is awaited without
\* any timeout of this code, so nothing makes a pending alert settle.
RequestSpec ==
  /\ RequestInit
  /\ [][RequestNext]_vars
  /\ WF_vars(BuildResult)
  /\ WF_vars(LoggedAlertReturns)
  /\ WF_vars(DecisionPostSettles)

(***************************************************************************)
(* The native sessions the service creates, and what becomes of them       *)
(***************************************************************************)
\* The number of sessions InferenceSession.create hands out in one run
MaxSessions == 3

\* Sessions are numbered in the order of their creation.  created: how many
\* there are; released: those whose native memory was given back; current: the
\* one the qr entry holds (0: none); atReload: how many there were when the
\* oldest reload in flight was called; exited: the process has ended
NoSessions ==
  [kind |-> "sessions", created |-> 0, released |-> {}, current |-> 0,
   atReload |-> 0, exited |-> FALSE]

SessionInit ==
  /\ ServiceInit
  /\ sinks = [alert |-> FALSE, decision |-> FALSE]
  /\ inp = NoInput
  /\ out = NoSessions

\* initialize() up to `await ort.InferenceSession.create(modelPath)`
InitializeCalled ==
  /\ ~out.exited
  /\ InFlight < MaxInits
  /\ out.created + InFlight < MaxSessions
  /\ inflight' = [inflight EXCEPT !.initialize = @ + 1]
  /\ UNCHANGED <<models, isInitialized, thresholds, sinks, lastInit, preReload, req, inp, out>>

\* reloadModels() up to the same await: models.clear() drops the table's
\* reference to the session and calls nothing on it
ReloadCalled ==
  /\ ~out.exited
  /\ InFlight < MaxInits
  /\ out.created + InFlight < MaxSessions
  /\ isInitialized' = FALSE
  /\ models' = EmptyTable
  /\ inflight' = [inflight EXCEPT !.reload = @ + 1]
  /\ preReload' = IF ReloadInProgress THEN preReload
                  ELSE [table |-> models, initialized |-> isInitialized]
  /\ out' = [out EXCEPT !.current = 0,
                        !.atReload = IF ReloadInProgress THEN @ ELSE out.created]
  /\ UNCHANGED <<thresholds, sinks, lastInit, req, inp>>

\* create() resolved with a new session: models.set('qr', ...) overwrites the
\* entry, whatever it held
SessionCreated(via) ==
  /\ ~out.exited
  /\ inflight[via] > 0
  /\ models' = AfterLoadSuccess(models)
  /\ isInitialized' = TRUE
  /\ inflight' = [inflight EXCEPT ![via] = @ - 1]
  /\ lastInit' = [via |-> via, outcome |-> "resolved", loadFailed |-> FALSE]
  /\ out' = [out EXCEPT !.created = @ + 1, !.current = out.created + 1]
  /\ UNCHANGED <<thresholds, sinks, preReload, req, inp>>

\* create() rejected: models.set('qr', null)
SessionNotCreated(via) ==
  /\ ~out.exited
  /\ inflight[via] > 0
  /\ models' = AfterLoadFailure(models)
  /\ isInitialized' = InitializedAfterFailure(isInitialized)
  /\ inflight' = [inflight EXCEPT ![via] = @ - 1]
  /\ lastInit' = [via |-> via, outcome |-> OutcomeAfterFailure, loadFailed |-> TRUE]
  /\ out' = [out EXCEPT !.current = 0]
  /\ UNCHANGED <<thresholds, sinks, preReload, req, inp>>

\* gracefulShutdown: the server and the consumer are stopped and process.exit
\* ends the process, and with it every native session
gracefulShutdown ==
  /\ ~out.exited
  /\ out' = [out EXCEPT !.exited = TRUE, !.released = 1 .. out.created, !.current = 0]
  /\ UNCHANGED <<serviceVars, inp>>

SessionNext ==
  \/ InitializeCalled
  \/ ReloadCalled
  \/ \E via \in {"initialize", "reload"} : SessionCreated(via)
  \/ \E via \in {"initialize", "reload"} : SessionNotCreated(via)
  \/ gracefulShutdown

SessionSpec == SessionInit /\ [][SessionNext]_vars

(***************************************************************************)
(* predict as a function of the session entry and the inference outcome    *)
(***************************************************************************)
\* The initialized service, as a single successful initialize leaves it
LoadedService ==
  /\ models = LoadedTable
  /\ isInitialized = TRUE
  /\ thresholds = DefaultThresholds
  /\ sinks = [alert |-> FALSE, decision |-> FALSE]
  /\ inflight = [initialize |-> 0, reload |-> 0]
  /\ lastInit = [via |-> "initialize", outcome |-> "resolved", loadFailed |-> FALSE]
  /\ preReload = [table |-> EmptyTable, initialized |-> FALSE]
  /\ req = IdleReq

\* Feature maps handed to predict: events as detectFraud passes them on, and
\* one as mapKafkaToModelFeatures alone leaves it (geo_speed_km_per_min is NaN
\* when the distance is missing and the time is not)
PredictFeatures ==
  DirectFeatures
  \cup { FillDefaults(mapKafkaToModelFeatures(ev).val) :
           ev \in {e \in ServiceEvents : WellFormed(e)} }
  \cup { mapKafkaToModelFeatures(
           MkEvent(Str("QR"), Num(2000000), Num(1082), Num(10663), Undef,
                   Num(360000), Num(6 * Fix), Num(100000), TRUE, "none")).val }

\* Feature maps on both sides of each of mockPrediction's six conditions
MockFeatures ==
  [ amount_usd : {Num(10000 * Fix), Num(10000 * Fix + 1)},
    is_night : {Num(0), Num(Fix)},
    geo_distance_from_last_txn : {Num(1000 * Fix), Num(1000 * Fix + 1)},
    velocity_1h : {Num(5 * Fix), Num(5 * Fix + 1)},
    is_new_device : {Num(0), Num(Fix)},
    suspicious_agent : {Num(0), Num(Fix)} ]

PredictInit ==
  /\ LoadedService
  /\ inp \in [ kind : {"predict"}, features : PredictFeatures,
                modelType : ModelTypes \cup {"wire"}, entry : EntryStates ]
          \cup [ kind : {"mock"}, features : MockFeatures,
                 modelType : ModelTypes \cup {"wire"}, entry : {"absent"} ]
  /\ out = NoOutput

\* mockPrediction(features, modelType) called on its own
CallMock ==
  /\ inp.kind = "mock"
  /\ out.kind = "none"
  /\ out' = [kind |-> "mocked", res |-> Ok(mockPrediction(inp.features, inp.modelType))]
  /\ UNCHANGED <<serviceVars, inp>>

\* predict(features, modelType) with the entry models.get returns and the
\* outcome of its await
CallPredict(outcome) ==
  /\ inp.kind = "predict"
  /\ out.kind = "none"
  /\ out' = [ kind |-> "predicted", outcome |-> outcome,
              awaited |-> AwaitsInference(inp.features, inp.modelType, inp.entry),
              res |-> predict(inp.features, inp.modelType, inp.entry, outcome) ]
  /\ UNCHANGED <<serviceVars, inp>>

\* predict(features, modelType) called a second time with the same arguments,
\* the table untouched in between; the outcome of its await is the runtime's
CallPredictAgain(outcome) ==
  /\ inp.kind = "predict"
  /\ out.kind = "predicted"
  /\ out' = [ kind |-> "again", first |-> out.res, firstOutcome |-> out.outcome,
              outcome |-> outcome, awaited |-> out.awaited,
              res |-> predict(inp.features, inp.modelType, inp.entry, outcome) ]
  /\ UNCHANGED <<serviceVars, inp>>

\* prepareONNXInput(features, modelType) called on its own
CallPrepare ==
  /\ inp.kind = "predict"
  /\ out.kind = "none"
  /\ out' = [ kind |-> "prepared", res |-> prepareONNXInput(inp.features, inp.modelType) ]
  /\ UNCHANGED <<serviceVars, inp>>

PredictNext ==
  \/ \E o \in IF AwaitsInference(inp.features, inp.modelType, inp.entry)
              THEN OutcomesFor(inp.modelType) ELSE {NoOutcome} : CallPredict(o)
  \/ \E o \in IF AwaitsInference(inp.features, inp.modelType, inp.entry)
              THEN OutcomesFor(inp.modelType) ELSE {NoOutcome} : CallPredictAgain(o)
  \/ CallPrepare
  \/ CallMock

PredictSpec == PredictInit /\ [][PredictNext]_vars

(***************************************************************************)
(* PythonONNXService.runInference: the promise and the subprocess events   *)
(***************************************************************************)
\* The number of data events of one stream
MaxChunks == 3

\* What a data event of stdout may carry: pieces of the JSON document the
\* runner prints, white space, and text that is no JSON
Chunks == {"{", "}", "{}", " ", "x"}

\* String.prototype.trim on the accumulated chunks
RECURSIVE TrimLeft(_)
TrimLeft(text) ==
  IF text # <<>> /\ Head(text) = " " THEN TrimLeft(Tail(text)) ELSE text

RECURSIVE TrimRight(_)
TrimRight(text) ==
  IF text # <<>> /\ text[Len(text)] = " "
  THEN TrimRight(SubSeq(text, 1, Len(text) - 1)) ELSE text

Trim(text) == TrimRight(TrimLeft(text))

\* JSON.parse: the parsed reply, or a SyntaxError
JsonParse(text) ==
  IF text \in {<<"{}">>, <<"{", "}">>} THEN Ok("reply") ELSE Throw("SyntaxError")

\* resolve(value) / reject(reason) of the promise's executor: the first call
\* settles the promise, every later call is ignored
Pending == [state |-> "pending", value |-> ""]
resolve(promise, value) ==
  IF promise.state = "pending" THEN [state |-> "resolved", value |-> value] ELSE promise
reject(promise, reason) ==
  IF promise.state = "pending" THEN [state |-> "rejected", value |-> reason] ELSE promise

\* Variant of OnClose that does not look at the exit code
OnCloseAnyCode(promise, output, code) ==
  LET result == JsonParse(Trim(output)) IN
  IF result.ok THEN resolve(promise, result.val)
  ELSE reject(promise, "Failed to parse Python output")

\* pythonProcess.on('close', (code) => ...)
OnClose(promise, output, code) ==
  IF code = 0
  THEN LET result == JsonParse(Trim(output)) IN
       IF result.ok THEN resolve(promise, result.val)
       ELSE reject(promise, "Failed to parse Python output")
  ELSE reject(promise, "Python process failed")

\* pythonProcess.on('error', (err) => ...)
OnError(promise) == reject(promise, "Failed to start Python process")

\* runInference up to the return of the promise: the process is spawned, the
\* handlers are attached, nothing was received.  events is the history of the
\* close and error events, in their order.
RunInit ==
  /\ LoadedService
  /\ inp = [kind |-> "run"]
  /\ out = [ kind |-> "run", output |-> <<>>, error |-> <<>>, promise |-> Pending,
             events |-> <<>>, code |-> 0 ]

Seen(event) == \E i \in DOMAIN out.events : out.events[i] = event

\* pythonProcess.stdout.on('data', ...): the streams end before 'close'
StdoutData(chunk) ==
  /\ out.kind = "run"
  /\ ~Seen("close")
  /\ Len(out.output) < MaxChunks
  /\ out' = [out EXCEPT !.output = Append(@, chunk)]
  /\ UNCHANGED <<serviceVars, inp>>

\* pythonProcess.stderr.on('data', ...)
StderrData(chunk) ==
  /\ out.kind = "run"
  /\ ~Seen("close")
  /\ Len(out.error) < MaxChunks
  /\ out' = [out EXCEPT !.error = Append(@, chunk)]
  /\ UNCHANGED <<serviceVars, inp>>

\* The 'close' event, once, with the exit code
Close(code) ==
  /\ out.kind = "run"
  /\ ~Seen("close")
  /\ out' = [out EXCEPT !.promise = OnClose(@, out.output, code),
                        !.events = Append(@, "close"),
                        !.code = code]
  /\ UNCHANGED <<serviceVars, inp>>

\* The 'error' event: the process could not be spawned (a 'close' may or may
\* not follow) or could not be killed
ErrorEvent ==
  /\ out.kind = "run"
  /\ ~Seen("error")
  /\ out' = [out EXCEPT !.promise = OnError(@), !.events = Append(@, "error")]
  /\ UNCHANGED <<serviceVars, inp>>

RunNext ==
  \/ \E chunk \in Chunks : StdoutData(chunk)
  \/ StderrData("x")
  \/ \E code \in {0, 1} : Close(code)
  \/ ErrorEvent

RunSpec == RunInit /\ [][RunNext]_vars

(***************************************************************************)
(* The decision policy on scores                                           *)
(***************************************************************************)
\* Scores around every cutoff of determineAction and classifyRisk, and two
\* outside [0, 1]
PolicyScores ==
  { Num(n) : n \in {0 - 50, 0, 29, 30, 49, 50, 69, 70, 84, 85, 86, 89, 90, 95, 96,
                    Fix, 150} }

\* Confidences on both sides of determineAction's 0.7
PolicyConfidences == {Num(0), Num(69), Num(70), Num(2 * Fix)}

\* Threshold configurations: the defaults, and ones below, between and above
\* the high-risk cutoffs
ThresholdSettings ==
  { DefaultThresholds,
    [qr |-> 30, ibft |-> 60, topup |-> 95],
    [qr |-> 95, ibft |-> 95, topup |-> 40],
    [qr |-> 85, ibft |-> 90, topup |-> 86] }

PolicyInit ==
  /\ models = LoadedTable
  /\ isInitialized = TRUE
  /\ thresholds \in ThresholdSettings
  /\ sinks = [alert |-> FALSE, decision |-> FALSE]
  /\ inflight = [initialize |-> 0, reload |-> 0]
  /\ lastInit = [via |-> "initialize", outcome |-> "resolved", loadFailed |-> FALSE]
  /\ preReload = [table |-> EmptyTable, initialized |-> FALSE]
  /\ req = IdleReq
  /\ inp \in [ kind : {"policy"}, s1 : PolicyScores, s2 : PolicyScores,
                isFraud : BOOLEAN, confidence : PolicyConfidences,
                modelType : ModelTypes ]
  /\ out = NoOutput

\* The fraudResult fields determineAction reads
FraudResult(score) ==
  [fraudScore |-> score, isFraud |-> inp.isFraud, confidence |-> inp.confidence]

\* determineAction on the two scores of the input
CallDetermineAction ==
  /\ inp.kind = "policy"
  /\ out.kind = "none"
  /\ out' = [ kind |-> "action", a1 |-> determineAction(FraudResult(inp.s1)),
              a2 |-> determineAction(FraudResult(inp.s2)) ]
  /\ UNCHANGED <<serviceVars, inp>>

\* classifyRisk on the two scores of the input
CallClassifyRisk ==
  /\ inp.kind = "policy"
  /\ out.kind = "none"
  /\ out' = [ kind |-> "risk", r1 |-> classifyRisk(inp.s1, inp.modelType, thresholds),
              r2 |-> classifyRisk(inp.s2, inp.modelType, thresholds) ]
  /\ UNCHANGED <<serviceVars, inp>>

\* The result object detectFraud builds from a prediction with score s1
CallMakeResult ==
  /\ inp.kind = "policy"
  /\ out.kind = "none"
  /\ out' = [ kind |-> "result",
              res |-> MakeResult(inp.modelType,
                                 Prediction(inp.s1, inp.confidence, "v1"), thresholds) ]
  /\ UNCHANGED <<serviceVars, inp>>

PolicyNext ==
  \/ CallDetermineAction
  \/ CallClassifyRisk
  \/ CallMakeResult

PolicySpec == PolicyInit /\ [][PolicyNext]_vars

(***************************************************************************)
(* The feature mapper on raw events                                        *)
(***************************************************************************)
MapInit ==
  /\ LoadedService
  /\ inp \in [kind : {"event"}, ev : Events]
  /\ out = NoOutput

\* mapKafkaToModelFeatures(ev)
MapEvent ==
  /\ inp.kind = "event"
  /\ out.kind = "none"
  /\ out' = [kind |-> "mapped", res |-> mapKafkaToModelFeatures(inp.ev)]
  /\ UNCHANGED <<serviceVars, inp>>

\* prepareONNXInput(features, modelType) on the mapped features
PrepareInput(modelType) ==
  /\ out.kind = "mapped"
  /\ out.res.ok
  /\ out' = [ kind |-> "prepared", modelType |-> modelType, features |-> out.res.val,
              res |-> prepareONNXInput(out.res.val, modelType) ]
  /\ UNCHANGED <<serviceVars, inp>>

\* detectFraud(ev) on the initialized service, up to the prediction
DetectEvent ==
  /\ inp.kind = "event"
  /\ out.kind = "none"
  /\ out' = [kind |-> "detected", res |-> DetectFraudSync(inp.ev, isInitialized, models)]
  /\ UNCHANGED <<serviceVars, inp>>

MapNext ==
  \/ MapEvent
  \/ \E m \in ModelTypes \cup {"wire"} : PrepareInput(m)
  \/ DetectEvent

MapSpec == MapInit /\ [][MapNext]_vars


(***************************************************************************)
(* Properties                                                              *)
(***************************************************************************)
\* v is a number in [0, 1]
InUnit(v) == v.k = "num" /\ 0 <= v.n /\ v.n <= Fix

\* The await of the predict call of `out` failed: session.run threw, or
\* runInference rejected or answered success = false
InferenceFailed ==
  /\ out.awaited
  /\ \/ out.outcome.kind \in {"throw", "reject"}
     \/ out.outcome.kind = "reply" /\ ~out.outcome.success

\* The predict call of `out` could not use a model: the entry is missing or
\* null, the call threw before its await, or the await failed
ModelUnavailable == EntryFalsy(inp.entry) \/ ~out.awaited \/ InferenceFailed

\* C1: predict called with 'qr', 'ibft' or 'topup' never raises, whatever the
\* session entry (loaded session, 'python', null, absent) and whatever the
\* inference does; when the entry is unavailable or the inference fails, the
\* fraudScore and confidence returned are exactly those of mockPrediction on
\* the same feature map.
C1_PredictNeverRaises ==
  (out.kind = "predicted" /\ inp.modelType \in ModelTypes) =>
    /\ out.res.ok
    /\ ModelUnavailable =>
         LET mock == mockPrediction(inp.features, inp.modelType) IN
         /\ out.res.val.fraudScore = mock.fraudScore
         /\ out.res.val.confidence = mock.confidence

\* C1 witness: an ibft prediction whose runInference rejected came back with
\* the mock score, which is above the base score for this feature map
C1_Witness ==
  /\ out.kind = "predicted"
  /\ inp.modelType = "ibft"
  /\ inp.entry = "python"
  /\ out.awaited
  /\ out.outcome.kind = "reject"
  /\ out.res.ok
  /\ out.res.val.fraudScore = mockPrediction(inp.features, "ibft").fraudScore
  /\ out.res.val.fraudScore.n > 10

\* C2: a failure to load a single model (the QR session included) is not
\* fatal: the initialize()/reloadModels() call that met it completes
\* successfully and the service is marked initialized.
C2_LoadFailureIsNotFatal ==
  lastInit.loadFailed => (lastInit.outcome = "resolved" /\ isInitialized)

\* C3: a prediction that looks up its session while a reload of a loaded
\* service is in progress finds a complete table, never the emptied or
\* partially repopulated one.
C3_NoLookupOfEmptiedTable ==
  (req.lookedUp /\ req.reloading) => Complete(req.tableAtLookup)

\* C4: a detectFraud call for a well-formed, supported transaction arriving
\* while a reload of a loaded service is in progress is not rejected with
\* 'Fraud detection service not initialized'.
C4_ReloadIsHot ==
  (req.entry = "detectFraud" /\ req.reloading /\ req.wellFormed) =>
    ~(req.pc = "failed" /\ req.error = "Fraud detection service not initialized")

\* C5: every result of predict has fraudScore and confidence within [0, 1],
\* whatever raw output the model produced.
C5_ScoreAndConfidenceInUnitInterval ==
  (out.kind = "predicted" /\ inp.modelType \in ModelTypes /\ out.res.ok) =>
    InUnit(out.res.val.fraudScore) /\ InUnit(out.res.val.confidence)

\* C6: detectFraud on an initialized service rejects a raw event of a
\* supported type that lacks txn_type, amount_raw, billing_lat or
\* billing_long; it does not go on to a prediction.
C6_MissingRequiredFieldRejected ==
  (req.entry = "detectFraud" /\ req.pc # "idle" /\ req.missing # {}) =>
    req.pc = "failed"

\* The keys that occur in some model's feature order
OrderKeys ==
  {QROrder[i] : i \in DOMAIN QROrder} \cup {IBFTOrder[i] : i \in DOMAIN IBFTOrder}
  \cup {TopupOrder[i] : i \in DOMAIN TopupOrder}

\* Feature keys copied from one optional raw field: <<key, section, raw field>>
CopiedFields ==
  { <<"amount_log", "transaction", "amount_log">>,
    <<"geo_distance_from_last_txn", "location", "geo_distance_from_last_txn">>,
    <<"seconds_since_last_txn", "aggregation", "seconds_since_last_txn">>,
    <<"sum_amount_1h", "aggregation", "user_amount_sum_1h">>,
    <<"avg_amount_1h", "aggregation", "user_amount_avg_1h">>,
    <<"txn_count_1h", "aggregation", "user_txn_count_1h">>,
    <<"sum_amount_24h", "aggregation", "user_amount_sum_24h">>,
    <<"avg_amount_24h", "aggregation", "user_amount_avg_24h">>,
    <<"txn_count_24h", "aggregation", "user_txn_count_24h">>,
    <<"same_device_txn_1h", "aggregation", "device_txn_count_1h">> }

\* Only optional fields are missing from the event: its sections and its four
\* required fields are there
OnlyOptionalMissing(ev) ==
  (\A s \in Sections : ~SectionAbsent(ev, s)) /\ MissingRequired(ev) = {}

\* C7: mapKafkaToModelFeatures does not fail when only optional fields are
\* missing, and in its feature map every key of a model's feature order holds a
\* number, which is 0 when the raw field the key is copied from is missing.
C7_EveryOrderKeyNumeric ==
  (out.kind = "mapped" /\ OnlyOptionalMissing(inp.ev)) =>
    /\ out.res.ok
    /\ \A key \in OrderKeys : Get(out.res.val, key).k = "num"
    /\ \A c \in CopiedFields :
         Get(inp.ev[c[2]], c[3]) = Undef => Get(out.res.val, c[1]) = Num(0)

\* C8: for an event with its required fields, mapKafkaToModelFeatures followed
\* by prepareONNXInput returns without error an array of 34 entries for qr and
\* 27 for ibft and topup, none of them NaN or undefined.
C8_InputArrayWellFormed ==
  /\ (out.kind = "mapped" /\ WellFormed(inp.ev)) => out.res.ok
  /\ (out.kind = "prepared" /\ out.modelType \in ModelTypes /\ WellFormed(inp.ev)) =>
       /\ out.res.ok
       /\ Len(out.res.val) = IF out.modelType = "qr" THEN 34 ELSE 27
       /\ \A i \in DOMAIN out.res.val : out.res.val[i].k = "num"

\* The QR feature order as the feature-mapper test script lists it
qrFeatureOrder ==
  << "is_weekend", "is_night", "txn_type_idx", "is_ibft", "is_topup", "is_qr",
     "amount_usd", "amount_log", "is_high_amount", "name_is_ascii",
     "name_has_digit", "name_has_symbol", "name_repeated_char",
     "disposable_email_flag", "billing_lat", "billing_long",
     "seconds_since_last_txn", "is_new_device", "geo_distance_from_last_txn",
     "suspicious_agent", "is_business_hours", "sum_amount_1h", "avg_amount_1h",
     "txn_count_1h", "sum_amount_24h", "avg_amount_24h", "txn_count_24h",
     "velocity_1h", "rank_amount_per_day", "change_in_user_agent",
     "lat_shift", "lng_shift", "geo_speed_km_per_min", "same_device_txn_1h" >>

\* The documented feature order of a model type
OrderOf(modelType) ==
  CASE modelType = "qr"    -> qrFeatureOrder
    [] modelType = "ibft"  -> IBFTOrder
    [] modelType = "topup" -> TopupOrder

\* The array element a stored value yields: 0 for a value that is absent or
\* not a number, then the element type's rounding
ElementOf(value, modelType) ==
  LET number == IF value.k \in {"num", "nan"} THEN value ELSE Num(0) IN
  IF modelType = "qr" THEN JsRound(number) ELSE ToFloat32(number)

\* The feature map without the keys outside the model's order
WithinOrder(features, modelType) ==
  LET keys == {OrderOf(modelType)[i] : i \in DOMAIN OrderOf(modelType)} IN
  [k \in (DOMAIN features) \cap keys |-> features[k]]

\* C9: prepareONNXInput neither reorders nor drops features: the array has one
\* entry per key of the model's order, entry i is the element of the value
\* stored under the i-th key alone (0 when that value is absent or not a
\* number), and the keys outside the order have no influence.
C9_EntriesFollowTheOrder ==
  (out.kind = "prepared" /\ out.modelType \in ModelTypes /\ out.res.ok) =>
    LET order == OrderOf(out.modelType) IN
    /\ Len(out.res.val) = Len(order)
    /\ \A i \in 1..Len(order) :
         LET value == Get(out.features, order[i]) IN
         /\ out.res.val[i] = ElementOf(value, out.modelType)
         /\ ~IsNumber(value) => out.res.val[i] = Num(0)
    /\ prepareONNXInput(WithinOrder(out.features, out.modelType), out.modelType)
         = out.res

\* C9 witness: a qr input array built from a feature map that lacks some keys
\* of the order, holds keys outside it, and has distinct non-zero values under
\* neighbouring keys
C9_Witness ==
  /\ out.kind = "prepared"
  /\ out.modelType = "qr"
  /\ out.res.ok
  /\ \E i \in DOMAIN qrFeatureOrder : Get(out.features, qrFeatureOrder[i]) = Undef
  /\ \E k \in DOMAIN out.features : k \notin OrderKeys
  /\ out.res.val[15].n # 0
  /\ out.res.val[15] # out.res.val[16]
  /\ out.res.val[7] = JsRound(Get(out.features, "amount_usd"))

\* C10: a model type outside 'qr', 'ibft' and 'topup' is an error of the call
\* at prepareONNXInput and at predict alike: neither returns a value for it.
C10_UnsupportedTypeIsAnError ==
  (out.kind \in {"predicted", "prepared"} /\ inp.modelType \notin ModelTypes) =>
    ~out.res.ok

\* C11: determineAction depends on fraudScore alone, with inclusive lower
\* bounds: >= 0.9 BLOCK without review, [0.7, 0.9) BLOCK with review,
\* [0.5, 0.7) CHALLENGE with review, [0.3, 0.5) MONITOR without review, below
\* 0.3 ALLOW without review; isFraud and confidence change neither the action
\* nor requiresReview.
C11_ActionIsAFunctionOfScore ==
  out.kind = "action" =>
    LET n == inp.s1.n
        a == out.a1
    IN /\ n >= 90 => (a.type = "BLOCK" /\ ~a.requiresReview)
       /\ (70 <= n /\ n < 90) => (a.type = "BLOCK" /\ a.requiresReview)
       /\ (50 <= n /\ n < 70) => (a.type = "CHALLENGE" /\ a.requiresReview)
       /\ (30 <= n /\ n < 50) => (a.type = "MONITOR" /\ ~a.requiresReview)
       /\ n < 30 => (a.type = "ALLOW" /\ ~a.requiresReview)
       /\ \A f \in BOOLEAN, c \in PolicyConfidences :
            LET b == determineAction([fraudScore |-> inp.s1, isFraud |-> f,
                                      confidence |-> c])
            IN b.type = a.type /\ b.requiresReview = a.requiresReview

\* C11 witness: a score of exactly 0.9 is blocked without review and one of
\* exactly 0.7 is blocked with review, for a result that is not flagged as fraud
C11_Witness ==
  /\ out.kind = "action"
  /\ inp.s1 = Num(90) /\ out.a1.type = "BLOCK" /\ ~out.a1.requiresReview
  /\ inp.s2 = Num(70) /\ out.a2.type = "BLOCK" /\ out.a2.requiresReview
  /\ ~inp.isFraud

\* The per-model high-risk cutoff
HighCutoff(modelType) == IF modelType = "ibft" THEN 90 ELSE 85

\* C12: classifyRisk returns 'high' at or above the per-model cutoff (0.85 for
\* qr and topup, 0.9 for ibft), else 'medium' at or above the type's configured
\* threshold, else 'low'; 0.86 is 'high' for qr and topup but not for ibft.
C12_RiskTiers ==
  out.kind = "risk" =>
    LET n == inp.s1.n IN
    /\ out.r1 = IF n >= HighCutoff(inp.modelType) THEN "high"
                ELSE IF n >= thresholds[inp.modelType] THEN "medium" ELSE "low"
    /\ n = 86 => (out.r1 = "high" <=> inp.modelType \in {"qr", "topup"})

\* C12 witness: 0.86 is 'medium' for ibft under the default thresholds and 0.9
\* is 'high'
C12_Witness ==
  /\ out.kind = "risk"
  /\ inp.modelType = "ibft"
  /\ thresholds = DefaultThresholds
  /\ inp.s1 = Num(86) /\ out.r1 = "medium"
  /\ inp.s2 = Num(90) /\ out.r2 = "high"

RiskRank(level) == CASE level = "low" -> 1 [] level = "medium" -> 2 [] level = "high" -> 3

ActionRank(type) ==
  CASE type = "ALLOW" -> 1 [] type = "MONITOR" -> 2 [] type = "CHALLENGE" -> 3
    [] type = "BLOCK" -> 4

\* C13: classifyRisk and the decision action are monotonic non-decreasing in
\* the score, for every model type and every threshold configuration
\* (thresholds above the high-risk cutoff included): s1 <= s2 implies
\* rank(risk(s1)) <= rank(risk(s2)) and rank(action(s1)) <= rank(action(s2)).
C13_Monotonic ==
  /\ (out.kind = "risk" /\ inp.s1.n <= inp.s2.n) =>
       RiskRank(out.r1) <= RiskRank(out.r2)
  /\ (out.kind = "action" /\ inp.s1.n <= inp.s2.n) =>
       ActionRank(out.a1.type) <= ActionRank(out.a2.type)

\* C13 witness: with a threshold above the cutoff, a score between the two and
\* a score above both are 'high' alike
C13_Witness ==
  /\ out.kind = "risk"
  /\ thresholds[inp.modelType] > HighCutoff(inp.modelType)
  /\ inp.s1.n >= HighCutoff(inp.modelType)
  /\ inp.s1.n < thresholds[inp.modelType]
  /\ inp.s2.n > thresholds[inp.modelType]
  /\ out.r1 = "high" /\ out.r2 = "high"

\* C14: isFraud of a detectFraud result is true exactly when fraudScore is
\* strictly greater than the configured threshold of the transaction's type; a
\* score equal to the threshold is not fraud, whatever action the score gets.
C14_IsFraudIsStrict ==
  out.kind = "result" =>
    /\ out.res.threshold = thresholds[inp.modelType]
    /\ out.res.fraudScore = inp.s1
    /\ out.res.isFraud <=> inp.s1.n > thresholds[inp.modelType]

\* C14 witness: a score equal to the threshold is not fraud although
\* determineAction challenges it
C14_Witness ==
  /\ out.kind = "result"
  /\ inp.s1.n = thresholds[inp.modelType]
  /\ ~out.res.isFraud
  /\ determineAction(out.res).type = "CHALLENGE"

\* C15: a detectFraud call that produces a result hands exactly one decision
\* record to the decision sink (sent or logged) and one alert to the alert sink
\* exactly when isFraud is true; the alert hand-off is complete before the
\* decision hand-off starts; a detectFraud call that fails hands off neither.
C15_HandOffs ==
  req.entry = "detectFraud" =>
    /\ req.pc = "returned" =>
         /\ req.handed.decision = 1
         /\ req.decision \in {"sent", "logged"}
         /\ req.handed.alert = IF req.result.isFraud THEN 1 ELSE 0
         /\ req.result.isFraud <=> req.alert \in {"sent", "logged"}
    /\ req.decision # "none" => req.alert \in {"none", "sent", "logged"}
    /\ req.decision # "none" =>
         req.handed.alert = IF req.result.isFraud THEN 1 ELSE 0
    /\ req.pc = "failed" =>
         /\ req.handed = [alert |-> 0, decision |-> 0]
         /\ req.alert = "none"
         /\ req.decision = "none"

\* C15 witness: a fraudulent transaction whose alert was published and whose
\* decision was posted
C15_Witness ==
  /\ req.entry = "detectFraud"
  /\ req.pc = "returned"
  /\ req.result.isFraud
  /\ req.alert = "sent"
  /\ req.decision = "sent"
  /\ req.handed = [alert |-> 1, decision |-> 1]

\* C16: a failing alert or decision sink (not configured, or its call
\* rejected) never makes detectFraud fail: the call returns the result built
\* from the prediction, unchanged, and the alert or decision is logged instead.
C16_SinkFailureIsAbsorbed ==
  req.entry = "detectFraud" =>
    /\ req.pc = "failed" =>
         (req.result = NoResult /\ req.sinkFailed = [alert |-> FALSE, decision |-> FALSE])
    /\ req.pc \in {"alerting", "deciding", "returned"} =>
         req.result = MakeResult(req.txnType, req.prediction, thresholds)
    /\ (req.pc \in {"deciding", "returned"} /\ req.result.isFraud /\ req.sinkFailed.alert) =>
         req.alert = "logged"
    /\ (req.pc = "returned" /\ req.sinkFailed.decision) => req.decision = "logged"

\* C16 witness: both sinks are configured, the publish and the POST were both
\* rejected, and the call returned with the alert and the decision logged
C16_Witness ==
  /\ req.entry = "detectFraud"
  /\ req.pc = "returned"
  /\ sinks = [alert |-> TRUE, decision |-> TRUE]
  /\ req.sinkFailed = [alert |-> TRUE, decision |-> TRUE]
  /\ req.result.isFraud
  /\ req.alert = "logged"
  /\ req.decision = "logged"

\* C17: the alert and decision sinks never block the prediction path: once the
\* fraud score has been computed, detectFraud eventually returns its result,
\* even if the alert sink or the decision sink never responds.
C17_SinksNeverBlock ==
  (req.entry = "detectFraud" /\ req.pc = "predicted") ~> (req.pc = "returned")

\* C18: the result the manual-prediction entry point returns carries the
\* decision with the prediction: the action, reason and decision risk level
\* that determineAction and getRiskLevel derive from the same fraudScore.
C18_ResultCarriesDecision ==
  (req.entry = "detectFraud" /\ req.pc = "returned") =>
    LET body == ApiPredictBody(req.result)
        decision == createDecision(req.result).decision
    IN /\ body.success
       /\ body.result.fraudScore = req.prediction.fraudScore
       /\ "decision" \in DOMAIN body.result
       /\ body.result.decision.action = decision.action
       /\ body.result.decision.reason = decision.reason
       /\ body.result.decision.riskLevel = decision.riskLevel

\* Element 1 when the output has more than one element, element 0 otherwise
IndexOneIfSeveral(data) == IF Len(data) > 1 THEN data[2] ELSE data[1]

\* The predict call of `out` ran the qr session and got its outputs
QROutputSeen ==
  /\ out.kind = "predicted"
  /\ inp.modelType = "qr"
  /\ out.awaited
  /\ out.outcome.kind = "output"

\* The fraudScore of `out` is the picked value clamped to [0, 1], when the
\* picked value is a number
ScoreIsClamped(picked) ==
  picked.k = "num" =>
    out.res.val.fraudScore =
      Num(IF picked.n < 0 THEN 0 ELSE IF picked.n > Fix THEN Fix ELSE picked.n)

\* C19 as claimed: the probability is taken from 'probabilities', else from
\* 'label', else from the first declared output, and for each of the three it
\* is element 1 when the output has more than one element, element 0 otherwise.
C19_IndexOneForEachOutput ==
  QROutputSeen =>
    LET o == out.outcome IN
    ScoreIsClamped(IF o.probabilities.has THEN IndexOneIfSeveral(o.probabilities.data)
                   ELSE IF o.label.has THEN IndexOneIfSeveral(o.label.data)
                   ELSE IndexOneIfSeveral(o.first.data))

\* C19 amended: the probability is taken from 'probabilities', else from
\* 'label', else from the first declared output; for 'probabilities' and the
\* first declared output it is element 1 when the output has more than one
\* element and element 0 otherwise, for 'label' it is always element 0.
C19_LabelTakesElementZero ==
  QROutputSeen =>
    LET o == out.outcome IN
    ScoreIsClamped(IF o.probabilities.has THEN IndexOneIfSeveral(o.probabilities.data)
                   ELSE IF o.label.has THEN o.label.data[1]
                   ELSE IndexOneIfSeveral(o.first.data))

\* C19 witness: no 'probabilities' output and a two-element label [0, 1]: the
\* score is element 0 of the label, not element 1 and not the first output
C19_Witness ==
  /\ QROutputSeen
  /\ ~out.outcome.probabilities.has
  /\ out.outcome.label = Tensor(<<Num(0), Num(Fix)>>)
  /\ out.outcome.first = Tensor(<<Num(20), Num(50)>>)
  /\ out.res.val.fraudScore = Num(0)
  /\ out.res.val.modelVersion = "qr_xgb_v1"

\* 1 if the condition holds, else 0
Indicator(cond) == IF cond THEN 1 ELSE 0

\* C20: mockPrediction returns confidence 0.7 and fraudScore = min(1.0, 0.1
\* + 0.3*[amount_usd > 10000] + 0.2*[is_night] + 0.25*[geo_distance > 1000]
\* + 0.2*[velocity_1h > 5] + 0.15*[is_new_device] + 0.1*[suspicious_agent]),
\* comparisons strict, for every combination of the six conditions and
\* whatever the model type.
C20_MockFormula ==
  out.kind = "mocked" =>
    LET f == inp.features
        sum == 10 + 30 * Indicator(f.amount_usd.n > 10000 * Fix)
                  + 20 * Indicator(f.is_night.n # 0)
                  + 25 * Indicator(f.geo_distance_from_last_txn.n > 1000 * Fix)
                  + 20 * Indicator(f.velocity_1h.n > 5 * Fix)
                  + 15 * Indicator(f.is_new_device.n # 0)
                  + 10 * Indicator(f.suspicious_agent.n # 0)
    IN /\ out.res.ok
       /\ out.res.val.confidence = Num(70)
       /\ out.res.val.fraudScore = Num(IF sum > Fix THEN Fix ELSE sum)
       /\ \A m \in ModelTypes : mockPrediction(f, m) = out.res.val

\* C20 witness: amount, distance and velocity exactly at their limits count
\* for nothing, the three flags give 0.1 + 0.2 + 0.15 + 0.1
C20_Witness ==
  /\ out.kind = "mocked"
  /\ inp.features.amount_usd = Num(10000 * Fix)
  /\ inp.features.geo_distance_from_last_txn = Num(1000 * Fix)
  /\ inp.features.velocity_1h = Num(5 * Fix)
  /\ inp.features.is_night = Num(Fix)
  /\ inp.features.is_new_device = Num(Fix)
  /\ inp.features.suspicious_agent = Num(Fix)
  /\ out.res.val.fraudScore = Num(55)

\* C21: two predict calls with identical features and model type, with no
\* initialize or reload between them, return the identical fraudScore,
\* whichever path (native session, subprocess, mock fallback) each call takes.
C21_SameInputsSameScore ==
  (out.kind = "again" /\ out.first.ok /\ out.res.ok) =>
    out.res.val.fraudScore = out.first.val.fraudScore

\* C22: every inference session created by initialize is released when it is
\* replaced by reloadModels() or when the service shuts down: once a reload
\* has completed, no session loaded before that reload remains unreleased.
C22_ReloadReleasesSessions ==
  ( /\ out.kind = "sessions"
    /\ ~ReloadInProgress
    /\ lastInit.via = "reload"
    /\ lastInit.outcome = "resolved" ) =>
      \A id \in 1 .. out.atReload : id \in out.released

\* C23: initialize() called again on an initialized service, and
\* reloadModels(), each end, when loading succeeds, in the state a single
\* initialize leaves: isInitialized is true and the table holds exactly the
\* entries of qr, ibft and topup, none left over from before; and
\* reloadModels clears the whole table before it re-runs initialize.
C23_LoadEndsAsASingleInitialize ==
  [][ /\ ( /\ InFlight' < InFlight
           /\ lastInit'.outcome = "resolved" ) =>
             (isInitialized' /\ models' = LoadedTable)
      /\ (inflight'.reload > inflight.reload) =>
             (~isInitialized' /\ models' = EmptyTable) ]_vars

\* C23 witness: a reload called on an initialized service with a complete
\* table has resolved, and nothing else is in flight
C23_Witness ==
  /\ InFlight = 0
  /\ lastInit.via = "reload"
  /\ lastInit.outcome = "resolved"
  /\ preReload.initialized
  /\ Complete(preReload.table)
  /\ isInitialized
  /\ models = LoadedTable

\* C24: prepareONNXInput encodes per model type.  For qr every entry is the
\* feature value rounded to the nearest integer, ties toward +infinity, as a
\* 64-bit integer, and a value that is not finite makes the call fail instead
\* of yielding an entry.  For ibft and topup every entry is the feature value
\* as a 32-bit float, not rounded to an integer.
C24_EncodingPerType ==
  (out.kind = "prepared" /\ out.modelType \in ModelTypes) =>
    LET order == OrderOf(out.modelType)
        Value(i) == LET v == Get(out.features, order[i])
                    IN IF v.k \in {"num", "nan"} THEN v ELSE Num(0)
    IN IF out.modelType = "qr"
       THEN IF \E i \in DOMAIN order : Value(i).k = "nan"
            THEN ~out.res.ok
            ELSE /\ out.res.ok
                 /\ \A i \in DOMAIN order :
                      LET e == out.res.val[i] IN
                      /\ e.k = "num"
                      /\ e.n % Fix = 0
                      /\ 2 * e.n - Fix <= 2 * Value(i).n
                      /\ 2 * Value(i).n < 2 * e.n + Fix
       ELSE /\ out.res.ok
            /\ \A i \in DOMAIN order :
                 LET e == out.res.val[i] IN
                 /\ Value(i).k = "nan" => e.k = "nan"
                 /\ Value(i).k = "num" =>
                      /\ e.k = "num"
                      /\ AbsInt(Value(i).n) < 16777216 => e = Value(i)
                      /\ AbsInt(Value(i).n - e.n) * 8388608 <= AbsInt(Value(i).n)

\* C24 witness: a qr input array in which 1620.54, the amount in USD, became
\* 1621 and the latitude -33.50 became -33 (the tie goes toward +infinity)
C24_Witness ==
  /\ out.kind = "prepared"
  /\ out.modelType = "qr"
  /\ out.res.ok
  /\ Get(out.features, "amount_usd") = Num(162054)
  /\ out.res.val[7] = Num(1621 * Fix)
  /\ Get(out.features, "billing_lat") = Num(0 - 3350)
  /\ out.res.val[15] = Num(0 - 33 * Fix)
  /\ Get(out.features, "billing_long") = Num(0 - 7036)
  /\ out.res.val[16] = Num(0 - 70 * Fix)

\* The reply carries no fraud-class probability: fewer than two outputs, or a
\* second output without index / key 1
NoFraudClassProbability(reply) ==
  \/ ~reply.predictions.has
  \/ Len(reply.predictions.data) < 2
  \/ LET second == reply.predictions.data[2] IN
     \/ second.shape = "array" /\ Len(second.data) < 2
     \/ second.shape = "object" /\ second.one = Undef
     \/ second.shape = "null"

\* C25: malformed output of the secondary runtime is recovered through the
\* mock prediction: when the runtime replies success = true but its
\* predictions carry no fraud-class probability, predictIBFT and predictTopup
\* return the mock prediction, not a score attributed to the model.
C25_MalformedReplyFallsBackToMock ==
  ( /\ out.kind = "predicted"
    /\ inp.modelType \in {"ibft", "topup"}
    /\ out.awaited
    /\ out.outcome.kind = "reply"
    /\ out.outcome.success
    /\ NoFraudClassProbability(out.outcome) ) =>
      /\ out.res.ok
      /\ out.res.val = mockPrediction(inp.features, inp.modelType)

\* C26: runInference settles exactly once whatever the order of the
\* subprocess events.  It resolves with the parsed reply if and only if the
\* process closed with exit code 0, the accumulated stdout parses as JSON and
\* no error event came first; it rejects on a non-zero exit code, on
\* unparsable stdout and on a spawn error; and it is not settled before close
\* or error has occurred.
C26_SettlesOnceByTheFirstEvent ==
  out.kind = "run" =>
    LET closedFirst == out.events # <<>> /\ out.events[1] = "close"
        stdout == Trim(out.output)
        parses == stdout = <<"{}">> \/ stdout = <<"{", "}">>
    IN /\ (out.promise.state = "pending") <=> (out.events = <<>>)
       /\ (out.promise.state = "resolved") <=> (closedFirst /\ out.code = 0 /\ parses)
       /\ (out.promise.state = "resolved") => (out.promise.value = "reply")
       /\ (out.events # <<>> /\ ~(closedFirst /\ out.code = 0 /\ parses)) =>
            out.promise.state = "rejected"
       /\ (out.promise.state = "rejected" /\ out.events[1] = "error") =>
            out.promise.value = "Failed to start Python process"

\* C26 witness: the reply arrived in two pieces with white space around it, the
\* process closed with code 0, and an error event came afterwards: the promise
\* stays resolved
C26_Witness ==
  /\ out.kind = "run"
  /\ out.output = <<" ", "{", "}">>
  /\ out.error # <<>>
  /\ out.events = <<"close", "error">>
  /\ out.code = 0
  /\ out.promise = [state |-> "resolved", value |-> "reply"]

\* C27: in every reachable state, under any interleaving of initialize() and
\* reloadModels() calls (overlapping reloads and failing loads included),
\* isInitialized = true implies that the table has an entry for each of qr,
\* ibft and topup; so a detectFraud call that passes the initialized check
\* never finds the key of its type absent.
C27_InitializedImpliesCompleteTable ==
  /\ isInitialized => Complete(models)
  /\ (req.entry = "detectFraud" /\ req.lookedUp) =>
       (Complete(req.tableAtLookup) /\ req.modelConfig # "absent")

\* C27 witness: a detectFraud call passed the initialized check while a reload
\* of a loaded service was in flight (an initialize that overlapped the reload
\* had resolved) and found its session
C27_Witness ==
  /\ req.entry = "detectFraud"
  /\ req.lookedUp
  /\ req.reloading
  /\ req.modelConfig = "single"

TypeFlagOf(modelType) ==
  CASE modelType = "qr"    -> "is_qr"
    [] modelType = "ibft"  -> "is_ibft"
    [] modelType = "topup" -> "is_topup"

TypeIndexOf(modelType) ==
  CASE modelType = "qr"    -> 2
    [] modelType = "ibft"  -> 1
    [] modelType = "topup" -> 3

\* C29: for every transaction detectFraud accepts, the dispatched model type
\* agrees with the type features fed to that model: exactly one of is_qr,
\* is_ibft and is_topup is 1, it is the one of the dispatched model, and
\* txn_type_idx is the index of that type (QR 2, IBFT 1, TOPUP 3), for every
\* spelling of txn_type detectFraud accepts, lower and mixed case included.
C29_TypeFeaturesAgreeWithDispatch ==
  (out.kind = "detected" /\ out.res.ok) =>
    LET features == out.res.val.features
        modelType == out.res.val.txnType
    IN /\ \A m \in ModelTypes :
            Get(features, TypeFlagOf(m)) = Num(IF m = modelType THEN Fix ELSE 0)
       /\ Get(features, "txn_type_idx") = Num(TypeIndexOf(modelType) * Fix)

\* The raw aggregation fields behind the count features, and behind the amount
\* features, of the feature map
RawCountOf ==
  [ txn_count_1h |-> "user_txn_count_1h", txn_count_24h |-> "user_txn_count_24h",
    velocity_1h |-> "user_txn_count_1h", same_device_txn_1h |-> "device_txn_count_1h" ]

RawAmountOf ==
  [ sum_amount_1h |-> "user_amount_sum_1h", avg_amount_1h |-> "user_amount_avg_1h",
    sum_amount_24h |-> "user_amount_sum_24h", avg_amount_24h |-> "user_amount_avg_24h" ]

\* A raw aggregation field is absent or 0
AbsentOrZero(ev, key) == Get(ev["aggregation"], key) \in {Undef, Num(0)}

\* The event without the raw counts and amounts that are 0
ZeroAsMissing(ev) ==
  LET raw == {RawCountOf[k] : k \in DOMAIN RawCountOf}
               \cup {RawAmountOf[k] : k \in DOMAIN RawAmountOf}
      agg == ev["aggregation"]
      kept == {k \in DOMAIN agg : ~(k \in raw /\ agg[k] = Num(0))}
  IN [s \in DOMAIN ev |-> IF s = "aggregation" THEN [k \in kept |-> agg[k]] ELSE ev[s]]

\* C30: in the feature values detectFraud passes to predict, txn_count_1h,
\* txn_count_24h, velocity_1h, rank_amount_per_day and same_device_txn_1h are
\* never 0 or missing: a raw count that is absent or 0 is replaced by 1, and
\* an absent or zero sum_amount_1h, avg_amount_1h, sum_amount_24h or
\* avg_amount_24h is replaced by amount_usd; so a zero supplied by the event
\* source gives the model the same input as a missing field.
C30_ZeroIsTreatedAsMissing ==
  (out.kind = "detected" /\ out.res.ok) =>
    LET features == out.res.val.features IN
    /\ \A k \in (DOMAIN RawCountOf) \cup {"rank_amount_per_day"} :
         Get(features, k).k = "num" /\ Get(features, k).n # 0
    /\ \A k \in DOMAIN RawCountOf :
         AbsentOrZero(inp.ev, RawCountOf[k]) => Get(features, k) = Num(Fix)
    /\ \A k \in DOMAIN RawAmountOf :
         AbsentOrZero(inp.ev, RawAmountOf[k]) =>
           Get(features, k) = Get(features, "amount_usd")
    /\ \A m \in ModelTypes :
         prepareONNXInput(features, m) =
           prepareONNXInput(
             DetectFraudSync(ZeroAsMissing(inp.ev), isInitialized, models).val.features, m)


====
